---- MODULE Spec2Model ----
(***************************************************************************)
(* Model of the llm-repl notebook engine: src/src/llm_repl/cells.py (the    *)
(* four cell evaluators), src/src/llm_repl/notebook.py (the Notebook) and   *)
(* src/src/llm_repl/llm.py (the generation providers).                      *)
(*                                                                         *)
(* Python values are records [t, n, s, l] (type tag, int, str, list).      *)
(* A Python dict is a TLA+ function whose DOMAIN is its key set.            *)
(* Cell contents are drawn from a catalog of small programs; a program is  *)
(* a sequence of statements [op, tgt, src, n, txt, d].                      *)
(*                                                                         *)
(* Lists are the only mutable values.  No program of the catalog binds one *)
(* list object to two names, so the only aliasing is the one dict.copy()   *)
(* creates: the namespace of a running cell and the notebook state hold the *)
(* same list object under the same name until the cell rebinds the name.   *)
(* An in-place append through a name that still aliases the state's object *)
(* is therefore applied to the state as well.                              *)
(***************************************************************************)
EXTENDS Integers, Sequences, FiniteSets, TLC

\* ------------------------------------------------------------ bounds
\* cells of a notebook of any kinds, and of a notebook of computation cells
MaxCells == 2
MaxCodeCells == 3
\* elements of a list held in the state
MaxListLen == 4
\* readings of the clock
MaxClock == 2
\* the largest int held in the state
MaxInt == 45

\* ------------------------------------------------------------ values
IntV(n) == [t |-> "int", n |-> n, s |-> "", l |-> <<>>]
StrV(s) == [t |-> "str", n |-> 0, s |-> s, l |-> <<>>]
ListV(l) == [t |-> "list", n |-> 0, s |-> "", l |-> l]

EmptyDict == <<>>

\* d[k] = v on a copy of dict d
DictSet(d, k, v) == (k :> v) @@ d

\* del d[k] on a copy of dict d
DictDel(d, k) == [j \in DOMAIN d \ {k} |-> d[j]]

\* dict.update: the entries of u override those of d
DictUpdate(d, u) == u @@ d

RECURSIVE JoinInts(_, _)
JoinInts(l, i) ==
    IF i > Len(l) THEN ""
    ELSE ToString(l[i]) \o (IF i < Len(l) THEN ", " ELSE "") \o JoinInts(l, i + 1)

\* str(value), also what str.format substitutes for a bare placeholder
PyStr(v) ==
    CASE v.t = "int" -> ToString(v.n)
      [] v.t = "str" -> v.s
      [] v.t = "list" -> "[" \o JoinInts(v.l, 1) \o "]"

\* the name of type(value), as it appears in exception messages
TypeName(v) == v.t

\* key.startswith('_')
StartsWithUnderscore(k) == Len(k) >= 1 /\ SubSeq(k, 1, 1) = "_"

\* every list and every int of a dict within the model's bounds
InBounds(d) == \A k \in DOMAIN d : Len(d[k].l) <= MaxListLen /\ d[k].n <= MaxInt

\* ------------------------------------------------------------ outputs
Output(type, content) ==
    [type |-> type, content |-> content, prompt |-> "",
     added |-> {}, updated_state |-> EmptyDict]

LlmResponseOutput(prompt, content) ==
    [type |-> "llm_response", content |-> content, prompt |-> prompt,
     added |-> {}, updated_state |-> EmptyDict]

MemoryUpdateOutput(added, updated) ==
    [type |-> "memory_update", content |-> "", prompt |-> "",
     added |-> added, updated_state |-> updated]

\* ------------------------------------------------------------ statements
St(op, tgt, src, n, txt) ==
    [op |-> op, tgt |-> tgt, src |-> src, n |-> n, txt |-> txt, d |-> EmptyDict]

StUpdate(d) ==
    [op |-> "update", tgt |-> "", src |-> "", n |-> 0, txt |-> "", d |-> d]

Content(text, parses, body) == [text |-> text, parses |-> parses, body |-> body]

\* computation cells
CodeX == Content("x = 1", TRUE, << St("const", "x", "", 1, "") >>)
CodeY == Content("y = x + 1", TRUE, << St("add", "y", "x", 1, "") >>)
CodeZ == Content("z = y + 1", TRUE, << St("add", "z", "y", 1, "") >>)
CodeFail ==
    Content("x = 5\nprint('hi')\nz.append(4)\n1/0", TRUE,
            << St("const", "x", "", 5, ""), St("print", "", "", 0, "hi"),
               St("append", "z", "", 4, ""), St("div0", "", "", 0, "") >>)
CodeExit ==
    Content("import sys\nsys.exit(1)", TRUE, << St("exit", "", "", 1, "") >>)
CodeSyntax == Content("x = ", FALSE, <<>>)
CodeDel == Content("del x", TRUE, << St("del", "x", "", 0, "") >>)
CodeDelFail ==
    Content("del x\n1/0", TRUE, << St("del", "x", "", 0, ""), St("div0", "", "", 0, "") >>)

ComputationContents ==
    {CodeX, CodeY, CodeZ, CodeFail, CodeExit, CodeSyntax}

\* markdown cells
MarkdownContents == {Content("# Title", TRUE, <<>>)}

\* prompt cells: the body is the template, literal text and {name} placeholders
PromptTopic ==
    Content("Tell me about {topic}", TRUE,
            << St("lit", "", "", 0, "Tell me about "), St("var", "topic", "", 0, "") >>)
PromptTwo ==
    Content("{x} and {z}", TRUE,
            << St("var", "x", "", 0, ""), St("lit", "", "", 0, " and "),
               St("var", "z", "", 0, "") >>)

PromptContents == {PromptTopic}

\* memory cells: one statement per line
MemoryTest ==
    Content("x = 42\ny = 'hello'\nmemory.update({'z': [1, 2, 3]})", TRUE,
            << St("lit_int", "x", "", 42, ""), St("lit_str", "y", "", 0, "hello"),
               StUpdate("z" :> ListV(<<1, 2, 3>>)) >>)
MemoryMalformed ==
    Content("x = 1\nmemory.update(oops)\nmemory.update([1, 2])\ny = 2", TRUE,
            << St("lit_int", "x", "", 1, ""), St("update_malformed", "", "", 0, "oops"),
               St("update_nondict", "", "", 0, "[1, 2]"), St("lit_int", "y", "", 2, "") >>)
MemoryUnhashable ==
    Content("x = 7\nmemory.update({[1]: 2})", TRUE,
            << St("lit_int", "x", "", 7, ""),
               St("update_unhashable", "", "", 0, "{[1]: 2}") >>)
MemoryExpr ==
    Content("topic = 'Python'\n# derived\ny = x + 1", TRUE,
            << St("lit_str", "topic", "", 0, "Python"),
               St("comment", "", "", 0, "# derived"), St("expr_add", "y", "x", 1, "x + 1") >>)

MemoryContents == {MemoryTest, MemoryMalformed, MemoryUnhashable, MemoryExpr}

\* cells that assign the reserved name `_`
CodeLast ==
    Content("_ = 5\nw = 3", TRUE,
            << St("const", "_", "", 5, ""), St("const", "w", "", 3, "") >>)
MemoryLast ==
    Content("topic = 'AI'\n_ = 'note'", TRUE,
            << St("lit_str", "topic", "", 0, "AI"), St("lit_str", "_", "", 0, "note") >>)

ReservedCells ==
    {[kind |-> "computation", content |-> CodeLast],
     [kind |-> "memory", content |-> MemoryLast]}

\* memory cells with an assignment whose right-hand side may not evaluate
MemoryWarn ==
    Content("y = x + 1\nz = 3", TRUE,
            << St("expr_add", "y", "x", 1, "x + 1"), St("lit_int", "z", "", 3, "") >>)
MemoryBadKey ==
    Content("a = 1\ny = {[1]: 2}\nz = 3", TRUE,
            << St("lit_int", "a", "", 1, ""), St("assign_unhashable", "y", "", 0, "{[1]: 2}"),
               St("lit_int", "z", "", 3, "") >>)

AssignmentCells ==
    {[kind |-> "memory", content |-> MemoryWarn],
     [kind |-> "memory", content |-> MemoryBadKey],
     [kind |-> "memory", content |-> MemoryLast],
     [kind |-> "computation", content |-> CodeX]}

\* computation cells that load and assign the same name
CodeIncr == Content("x = x + 1", TRUE, << St("add", "x", "x", 1, "") >>)
CodeShadow ==
    Content("x = 1\ny = x + 1", TRUE,
            << St("const", "x", "", 1, ""), St("add", "y", "x", 1, "") >>)

ShadowingContents == {CodeX, CodeY, CodeIncr, CodeShadow}

\* a computation cell that changes a list of the state in place
CodeAppend == Content("z.append(4)", TRUE, << St("append", "z", "", 4, "") >>)

\* a computation cell that only prints
CodePrint ==
    Content("print('Hello, world!')", TRUE, << St("print", "", "", 0, "Hello, world!") >>)

MergeCells ==
    {[kind |-> "memory", content |-> MemoryTest],
     [kind |-> "computation", content |-> CodeAppend],
     [kind |-> "computation", content |-> CodePrint],
     [kind |-> "computation", content |-> CodeX],
     [kind |-> "computation", content |-> CodeLast]}

\* a prompt without placeholders
PromptPlain == Content("Say hi", TRUE, << St("lit", "", "", 0, "Say hi") >>)

\* ------------------------------------------------------------ cells
\* PromptCell._cell_index = None
NoIndex == -1

\* PromptCell defaults: model "gpt-4", temperature 0.7 (in tenths)
DefaultModel == "gpt-4"
DefaultTemperature == 7

\* str(uuid.uuid4())[:8] of the n-th cell object created for the notebook
Uuid4(n) ==
    CASE n = 1 -> "8d3af40e"
      [] n = 2 -> "f5ba15c2"
      [] n = 3 -> "1b9d6bcd"
      [] OTHER -> "c0ffee" \o ToString(n + 10)

\* Cell.__init__ and PromptCell.__init__
NewCell(kind, content, cell_id, response_var) ==
    [kind |-> kind, content |-> content, cell_id |-> cell_id, outputs |-> <<>>,
     deps |-> {}, produces |-> {}, model |-> DefaultModel,
     temperature |-> DefaultTemperature, response_var |-> response_var,
     cell_index |-> NoIndex]

\* str.isidentifier() for ASCII names
IdentStart ==
    {"_", "a", "b", "c", "d", "e", "f", "g", "h", "i", "j", "k", "l", "m", "n", "o",
     "p", "q", "r", "s", "t", "u", "v", "w", "x", "y", "z"}

IdentRest == IdentStart \cup {"0", "1", "2", "3", "4", "5", "6", "7", "8", "9"}

IsIdentifier(s) ==
    /\ Len(s) > 0
    /\ SubSeq(s, 1, 1) \in IdentStart
    /\ \A i \in 2..Len(s) : SubSeq(s, i, i) \in IdentRest

\* the least and the largest temperature PromptCell accepts, in tenths
MinTemperature == 0
MaxTemperature == 20

\* a PromptCell.__init__ that validates nothing
PromptCellInitUnchecked(content, cell_id, model, temperature, response_var) ==
    [raised |-> "",
     cell |-> [NewCell("prompt", content, cell_id,
                       IF response_var = <<>> THEN "" ELSE response_var[1])
                  EXCEPT !.model = model, !.temperature = temperature]]

\* PromptCell.__init__: response_var is <<>> for None, << name >> otherwise
PromptCellInit(content, cell_id, model, temperature, response_var) ==
    IF ~(MinTemperature <= temperature /\ temperature <= MaxTemperature)
    THEN [raised |-> "ValueError", cell |-> NewCell("prompt", content, cell_id, "")]
    ELSE IF response_var # <<>> /\ ~IsIdentifier(response_var[1])
    THEN [raised |-> "ValueError", cell |-> NewCell("prompt", content, cell_id, "")]
    ELSE [raised |-> "",
          cell |-> [NewCell("prompt", content, cell_id,
                            IF response_var = <<>> THEN "" ELSE response_var[1])
                       EXCEPT !.model = model, !.temperature = temperature]]

\* what an evaluator hands back: the returned dict (or, when the call raised,
\* the caller's dict as the call left it), the cell's new fields, the exception
\* that escaped ("" when the call returned) and the generate() call made
NoCall ==
    [invoked |-> FALSE, prompt |-> "", model |-> "", temperature |-> 0, failed |-> FALSE]

Result(st, outputs, deps, produces, raised, call) ==
    [state |-> st, outputs |-> outputs, deps |-> deps, produces |-> produces,
     raised |-> raised, call |-> call]

\* ------------------------------------------------------------ MarkdownCell
\* an execute() that records the names of the state as read and produced
MarkdownExecuteRecording(cell, st) ==
    Result(st, << Output("markdown", cell.content.text) >>, DOMAIN st, DOMAIN st,
           "", NoCall)

MarkdownExecute(cell, st) ==
    Result(st, << Output("markdown", cell.content.text) >>, cell.deps, cell.produces,
           "", NoCall)

\* ------------------------------------------------------------ ComputationCell
\* DependencyVisitor over the statements in source order; an assignment's
\* targets are visited before its value (ast.Assign._fields)
RECURSIVE VisitStmts(_, _, _, _, _)
VisitStmts(body, i, state_vars, dependencies, assignments) ==
    IF i > Len(body) THEN dependencies
    ELSE LET s == body[i]
             stores == IF s.op \in {"const", "add"} THEN {s.tgt} ELSE {}
             assigned == assignments \cup stores
             loads == CASE s.op = "add" -> {s.src}
                        [] s.op = "append" -> {s.tgt}
                        [] OTHER -> {}
             reads == {v \in loads : v \in state_vars /\ v \notin assigned}
         IN VisitStmts(body, i + 1, state_vars, dependencies \cup reads, assigned)

AnalyzeDependencies(content, st) ==
    IF content.parses THEN VisitStmts(content.body, 1, DOMAIN st, {}, {}) ELSE {}

\* the interpreter's state while exec() runs the code: st is the caller's dict
\* (its lists can be mutated through aliases), ns is local_ns, out the captured
\* stdout, alias the names whose object in ns is still the one st holds
Raise(E, msg) == [E EXCEPT !.status = "exception", !.err = msg]

NameErrorMsg(name) == "name '" \o name \o "' is not defined"

ExecStmt(s, E) ==
    CASE s.op = "const" ->
            [E EXCEPT !.ns = DictSet(E.ns, s.tgt, IntV(s.n)), !.alias = @ \ {s.tgt}]
      [] s.op = "add" ->
            IF s.src \notin DOMAIN E.ns THEN Raise(E, NameErrorMsg(s.src))
            ELSE IF E.ns[s.src].t # "int"
            THEN Raise(E, "can only concatenate " \o TypeName(E.ns[s.src])
                          \o " (not \"int\") to " \o TypeName(E.ns[s.src]))
            ELSE [E EXCEPT !.ns = DictSet(E.ns, s.tgt, IntV(E.ns[s.src].n + s.n)),
                           !.alias = @ \ {s.tgt}]
      [] s.op = "print" -> [E EXCEPT !.out = @ \o s.txt \o "\n"]
      [] s.op = "div0" -> Raise(E, "division by zero")
      [] s.op = "exit" -> [E EXCEPT !.status = "SystemExit"]
      [] s.op = "del" ->
            IF s.tgt \notin DOMAIN E.ns THEN Raise(E, NameErrorMsg(s.tgt))
            ELSE [E EXCEPT !.ns = DictDel(E.ns, s.tgt), !.alias = @ \ {s.tgt}]
      [] s.op = "append" ->
            IF s.tgt \notin DOMAIN E.ns THEN Raise(E, NameErrorMsg(s.tgt))
            ELSE IF E.ns[s.tgt].t # "list"
            THEN Raise(E, "'" \o TypeName(E.ns[s.tgt])
                          \o "' object has no attribute 'append'")
            ELSE LET grown == ListV(Append(E.ns[s.tgt].l, s.n))
                 IN [E EXCEPT !.ns = DictSet(E.ns, s.tgt, grown),
                              !.st = IF s.tgt \in E.alias
                                     THEN DictSet(E.st, s.tgt, grown) ELSE @]

RECURSIVE ExecStmts(_, _, _)
ExecStmts(body, i, E) ==
    IF i > Len(body) \/ E.status # "ok" THEN E
    ELSE ExecStmts(body, i + 1, ExecStmt(body[i], E))

\* exec(self.content, safe_globals, local_ns)
Exec(content, st) ==
    LET E0 == [status |-> "ok", err |-> "", st |-> st, ns |-> st, out |-> "",
               alias |-> DOMAIN st]
    IN IF content.parses THEN ExecStmts(content.body, 1, E0)
       ELSE Raise(E0, "invalid syntax (<string>, line 1)")

\* the keys the diff loop merges: not private, and new or compared unequal
MergedKeys(original_keys, st, ns) ==
    {k \in DOMAIN ns :
        /\ ~StartsWithUnderscore(k)
        /\ ~(k \in original_keys /\ st[k] = ns[k])}

\* a merge that takes the namespace for the new state: a name the code deleted
\* is gone
MergeLocalNs(st, ns, merged) ==
    [k \in (DOMAIN st \cap DOMAIN ns) \cup merged |-> IF k \in merged THEN ns[k] ELSE st[k]]

\* new_state = state.copy(), then the merge of the keys of the diff
MergeInto(st, ns, merged) ==
    [k \in DOMAIN st \cup merged |-> IF k \in merged THEN ns[k] ELSE st[k]]

\* an execute() that drops the captured stdout
ComputationReturnNoStdout(cell, original_keys, deps, E) ==
    CASE E.status = "ok" ->
            Result(MergeInto(E.st, E.ns, MergedKeys(original_keys, E.st, E.ns)),
                   <<>>,
                   deps, cell.produces \cup MergedKeys(original_keys, E.st, E.ns),
                   "", NoCall)
      [] E.status = "exception" ->
            Result(E.st, << Output("error", E.err) >>, deps, cell.produces, "", NoCall)
      [] E.status = "SystemExit" ->
            Result(E.st, <<>>, deps, cell.produces, "SystemExit", NoCall)

\* what execute() does once exec() has ended as E
ComputationReturn(cell, original_keys, deps, E) ==
    CASE E.status = "ok" ->
            Result(MergeInto(E.st, E.ns, MergedKeys(original_keys, E.st, E.ns)),
                   IF E.out # "" THEN << Output("stdout", E.out) >> ELSE <<>>,
                   deps, cell.produces \cup MergedKeys(original_keys, E.st, E.ns),
                   "", NoCall)
      [] E.status = "exception" ->
            Result(E.st, << Output("error", E.err) >>, deps, cell.produces, "", NoCall)
      [] E.status = "SystemExit" ->
            Result(E.st, <<>>, deps, cell.produces, "SystemExit", NoCall)

ComputationExecute(cell, st) ==
    ComputationReturn(cell, DOMAIN st, AnalyzeDependencies(cell.content, st),
                      Exec(cell.content, st))

\* ------------------------------------------------------------ providers
\* what the provider's backend does on a call: answers, or fails
Outcomes == {"ok", "fail"}

\* prompt[:50]
Prefix50(prompt) == IF Len(prompt) <= 50 THEN prompt ELSE SubSeq(prompt, 1, 50)

\* how generate() ended: whether it raised, whether the backend had failed,
\* and the text returned (or the exception's message)
Returned(text, failed) == [raised |-> FALSE, failed |-> failed, text |-> text]
Raised(msg) == [raised |-> TRUE, failed |-> TRUE, text |-> msg]

MockGenerate(prompt) ==
    Returned("Mock response to: " \o Prefix50(prompt) \o "...", FALSE)

\* the API call either returns the completion or raises; generate() catches
\* the exception and returns its message as the text
OpenAIGenerate(prompt, outcome) ==
    IF outcome = "ok" THEN Returned("Completion.", FALSE)
    ELSE Returned("Error: " \o "Connection error.", TRUE)

\* a provider object installed from outside llm.py (the tests' MagicMock):
\* returns its canned text, or raises
StubGenerate(prompt, outcome) ==
    IF outcome = "ok" THEN Returned("This is a mock response.", FALSE)
    ELSE Raised("provider failure")

\* a get_llm_provider() that builds the default provider on every call
ResolveProviderUncached(p) == "mock"

\* get_llm_provider(): an unset provider resolves to the configured default
ResolveProvider(p) == IF p = "None" THEN "mock" ELSE p

Generate(p, prompt, outcome) ==
    CASE p = "mock" -> MockGenerate(prompt)
      [] p = "openai" -> OpenAIGenerate(prompt, outcome)
      [] p = "stub" -> StubGenerate(prompt, outcome)

\* ------------------------------------------------------------ PromptCell
\* re.findall(r'{(\w+)(?:\.\w+\(\))?}', content)
TemplateVars(content) ==
    {content.body[i].tgt : i \in {j \in 1..Len(content.body) : content.body[j].op = "var"}}

\* content.format(**state): left to right, KeyError at the first absent name
RECURSIVE FormatParts(_, _, _, _)
FormatParts(body, i, st, acc) ==
    IF i > Len(body) THEN [ok |-> TRUE, text |-> acc, missing |-> ""]
    ELSE IF body[i].op = "lit" THEN FormatParts(body, i + 1, st, acc \o body[i].txt)
    ELSE IF body[i].tgt \in DOMAIN st
    THEN FormatParts(body, i + 1, st, acc \o PyStr(st[body[i].tgt]))
    ELSE [ok |-> FALSE, text |-> acc, missing |-> body[i].tgt]

Format(content, st) == FormatParts(content.body, 1, st, "")

\* the name the response is stored under
ResponseVar(cell) ==
    IF cell.response_var # "" THEN cell.response_var
    ELSE IF cell.cell_index # NoIndex THEN "response_" \o ToString(cell.cell_index)
    ELSE "response_" \o cell.cell_id

\* llm.generate(prompt=formatted_prompt, model=..., temperature=...)
GenerateCall(cell, formatted_prompt, g) ==
    [invoked |-> TRUE, prompt |-> formatted_prompt, model |-> cell.model,
     temperature |-> cell.temperature, failed |-> g.failed]

\* execute() with line 302 (new_state['_'] = response) left out
PromptReturnNoUnderscore(cell, st, deps, formatted_prompt, response_var, g) ==
    IF g.raised
    THEN Result(st, << Output("error", g.text) >>, deps, cell.produces, "",
                GenerateCall(cell, formatted_prompt, g))
    ELSE Result(DictSet(st, response_var, StrV(g.text)),
                << LlmResponseOutput(formatted_prompt, g.text) >>, deps,
                cell.produces \cup {response_var}, "",
                GenerateCall(cell, formatted_prompt, g))

\* what execute() does once generate() has ended as g
PromptReturn(cell, st, deps, formatted_prompt, response_var, g) ==
    IF g.raised
    THEN Result(st, << Output("error", g.text) >>, deps, cell.produces, "",
                GenerateCall(cell, formatted_prompt, g))
    ELSE Result(DictSet(DictSet(st, response_var, StrV(g.text)), "_", StrV(g.text)),
                << LlmResponseOutput(formatted_prompt, g.text) >>, deps,
                cell.produces \cup {response_var, "_"}, "",
                GenerateCall(cell, formatted_prompt, g))

\* execute() with the KeyError handler left out: the text formatted so far
\* goes to generate()
PromptFormattedUnchecked(cell, st, p, outcome, deps, f) ==
    PromptReturn(cell, st, deps, f.text, ResponseVar(cell), Generate(p, f.text, outcome))

\* what execute() does once content.format(**state) has ended as f
PromptFormatted(cell, st, p, outcome, deps, f) ==
    IF ~f.ok
    THEN Result(st, << Output("error", "Missing variable in state: '" \o f.missing \o "'") >>,
                deps, cell.produces, "", NoCall)
    ELSE PromptReturn(cell, st, deps, f.text, ResponseVar(cell),
                      Generate(p, f.text, outcome))

PromptExecute(cell, st, p, outcome) ==
    PromptFormatted(cell, st, p, outcome,
                    cell.deps \cup (TemplateVars(cell.content) \cap DOMAIN st),
                    Format(cell.content, st))

\* ------------------------------------------------------------ MemoryCell
ParseErrorOutput(msg) == Output("error", "Error parsing memory.update(): " \o msg)

WarningOutput(value, msg) ==
    Output("warning", "Could not evaluate '" \o value \o "', storing as string: " \o msg)

\* one line of the cell; M holds new_state, the outputs, the cell's sets and
\* whether an exception has reached the cell-level handler
MemoryLine(s, M, st) ==
    CASE s.op = "comment" -> M
      [] s.op = "lit_int" ->
            [M EXCEPT !.new_state = DictSet(@, s.tgt, IntV(s.n)),
                      !.produces = @ \cup {s.tgt}]
      [] s.op = "lit_str" ->
            [M EXCEPT !.new_state = DictSet(@, s.tgt, StrV(s.txt)),
                      !.produces = @ \cup {s.tgt}]
      [] s.op = "update" ->
            [M EXCEPT !.deps = @ \cup {s.d[k].s : k \in {j \in DOMAIN s.d :
                                          s.d[j].t = "str" /\ s.d[j].s \in DOMAIN st}},
                      !.new_state = DictUpdate(@, s.d),
                      !.produces = @ \cup DOMAIN s.d]
      [] s.op = "update_malformed" ->
            [M EXCEPT !.outputs = Append(@, ParseErrorOutput("malformed node or string"))]
      [] s.op = "update_nondict" ->
            [M EXCEPT !.outputs =
                Append(@, ParseErrorOutput("memory.update() requires a dictionary"))]
      [] s.op = "update_unhashable" ->
            [M EXCEPT !.status = "exception", !.err = "unhashable type: 'list'"]
      [] s.op = "assign_unhashable" ->
            \* ast.literal_eval raises TypeError, which the handler of
            \* (ValueError, SyntaxError) around it does not catch
            [M EXCEPT !.status = "exception", !.err = "unhashable type: 'list'"]
      [] s.op = "expr_add" ->
            LET deps == M.deps \cup ({s.src} \cap DOMAIN st)
                ns == M.new_state
            IN IF s.src \in DOMAIN ns /\ ns[s.src].t = "int"
               THEN [M EXCEPT !.deps = deps,
                              !.new_state = DictSet(@, s.tgt, IntV(ns[s.src].n + s.n)),
                              !.produces = @ \cup {s.tgt}]
               ELSE [M EXCEPT !.deps = deps,
                              !.new_state = DictSet(@, s.tgt, StrV(s.txt)),
                              !.produces = @ \cup {s.tgt},
                              !.outputs = Append(@, WarningOutput(s.txt,
                                  IF s.src \notin DOMAIN ns THEN NameErrorMsg(s.src)
                                  ELSE "can only concatenate " \o TypeName(ns[s.src])
                                       \o " (not \"int\") to " \o TypeName(ns[s.src])))]

RECURSIVE MemoryLines(_, _, _, _)
MemoryLines(body, i, M, st) ==
    IF i > Len(body) \/ M.status # "ok" THEN M
    ELSE MemoryLines(body, i + 1, MemoryLine(body[i], M, st), st)

\* what execute() does once the loop over the lines has ended as M
MemoryReturn(st, M) ==
    IF M.status = "ok"
    THEN Result(M.new_state,
                Append(M.outputs,
                       MemoryUpdateOutput(M.produces,
                           [k \in DOMAIN M.new_state \cap M.produces |->
                               PyStr(M.new_state[k])])),
                M.deps, M.produces, "", NoCall)
    ELSE Result(st, Append(M.outputs, Output("error", M.err)), M.deps, M.produces,
                "", NoCall)

MemoryExecute(cell, st) ==
    MemoryReturn(st, MemoryLines(cell.content.body, 1,
                     [status |-> "ok", err |-> "", new_state |-> st, outputs |-> <<>>,
                      deps |-> cell.deps, produces |-> cell.produces], st))

VARIABLES
    cells,      \* Notebook.cells: the ordered cells
    state,      \* Notebook.state: name -> value
    provider,   \* llm._provider: "None", "mock", "openai" or "stub"
    last,       \* observation of the most recent operation
    meta,       \* Notebook.name, notebook_id, created_at, updated_at, metadata
    clock,      \* what datetime.now() returns
    doc,        \* the notebook file: <<>> when absent, << document >> otherwise
    web         \* the web adapter: its requests in flight and the events emitted

vars == <<cells, state, provider, last, meta, clock, doc, web>>

\* ------------------------------------------------------------ Notebook
Observe(op, index, raised, log) ==
    [op |-> op, index |-> index, raised |-> raised, log |-> log]

\* str(uuid.uuid4()) of the notebook
NotebookUuid == "3f2b8c1e"

\* Notebook.__init__'s metadata literal
KernelMetadata ==
    [kernel |-> "python3", language_info |-> [name |-> "python", version |-> "3.8+"]]

\* the fields Notebook.__init__ sets besides cells and state, at time now
NewMeta(name, now) ==
    [name |-> name, notebook_id |-> NotebookUuid, created_at |-> now,
     updated_at |-> now, metadata |-> KernelMetadata]

\* the request threads of the web adapter (async_mode='threading')
MaxWorkers == 2
Workers == 1..MaxWorkers

\* execute requests the adapter serves in one run
MaxRequests == 3

\* a worker thread with no request
IdleRequest == [pc |-> "idle"]

\* self.updated_at = datetime.now().isoformat()
Touch(m, now) == [m EXCEPT !.updated_at = now]

\* Notebook.__init__; llm._provider = None; no file written yet
Init ==
    /\ cells = <<>>
    /\ state = EmptyDict
    /\ provider = "None"
    /\ last = Observe("init", 0, "", <<>>)
    /\ clock = 0
    /\ meta = NewMeta("Untitled Notebook", clock)
    /\ doc = <<>>
    /\ web = [reqs |-> [t \in Workers |-> IdleRequest], events |-> <<>>]

\* Notebook.add_cell
AddCell(bound, cell) ==
    /\ Len(cells) < bound
    /\ cells' = Append(cells, cell)
    /\ last' = Observe("add_cell", Len(cells), "", <<>>)
    /\ meta' = Touch(meta, clock)
    /\ UNCHANGED <<state, provider, clock, doc, web>>

CreateMarkdownCell ==
    \E content \in MarkdownContents :
        AddCell(MaxCells, NewCell("markdown", content, Uuid4(Len(cells) + 1), ""))

CreateComputationCell ==
    \E content \in ComputationContents :
        AddCell(MaxCells, NewCell("computation", content, Uuid4(Len(cells) + 1), ""))

CreatePromptCell ==
    \E content \in PromptContents :
        AddCell(MaxCells, NewCell("prompt", content, Uuid4(Len(cells) + 1), ""))

CreateMemoryCell ==
    \E content \in MemoryContents :
        AddCell(MaxCells, NewCell("memory", content, Uuid4(Len(cells) + 1), ""))

\* create_computation_cell for a notebook of computation cells only
CreateCodeCell ==
    \E content \in ComputationContents :
        AddCell(MaxCodeCells, NewCell("computation", content, Uuid4(Len(cells) + 1), ""))

\* add_cell(PromptCell(content, response_var="answer"))
AddNamedPromptCell ==
    AddCell(MaxCells, NewCell("prompt", PromptTwo, Uuid4(Len(cells) + 1), "answer"))

\* create_computation_cell / create_memory_cell with code that assigns `_`
CreateReservedCell ==
    \E c \in ReservedCells :
        AddCell(MaxCells, NewCell(c.kind, c.content, Uuid4(Len(cells) + 1), ""))

\* cell.execute(state), by the cell's class
CellExecute(cell, st, p, outcome) ==
    CASE cell.kind = "markdown" -> MarkdownExecute(cell, st)
      [] cell.kind = "computation" -> ComputationExecute(cell, st)
      [] cell.kind = "prompt" -> PromptExecute(cell, st, ResolveProvider(p), outcome)
      [] cell.kind = "memory" -> MemoryExecute(cell, st)

\* an execute_cell whose cell keeps the outputs of its earlier runs
StepResultKeepingOutputs(nb, i, cell, r) ==
    [cells |-> [nb.cells EXCEPT ![i + 1] =
                   [cell EXCEPT !.outputs = cell.outputs \o r.outputs, !.deps = r.deps,
                                !.produces = r.produces]],
     state |-> r.state,
     provider |-> IF r.call.invoked THEN ResolveProvider(nb.provider) ELSE nb.provider,
     entry |-> [index |-> i, kind |-> cell.kind, pre |-> nb.state, post |-> r.state,
                raised |-> r.raised, outputs |-> r.outputs, call |-> r.call]]

\* the body of Notebook.execute_cell for a valid index, on notebook nb
StepResult(nb, i, cell, r) ==
    [cells |-> [nb.cells EXCEPT ![i + 1] =
                   [cell EXCEPT !.outputs = r.outputs, !.deps = r.deps,
                                !.produces = r.produces]],
     state |-> r.state,
     provider |-> IF r.call.invoked THEN ResolveProvider(nb.provider) ELSE nb.provider,
     entry |-> [index |-> i, kind |-> cell.kind, pre |-> nb.state, post |-> r.state,
                raised |-> r.raised, outputs |-> r.outputs, call |-> r.call]]

ExecuteStep(nb, i, outcome) ==
    StepResult(nb, i, nb.cells[i + 1],
               CellExecute(nb.cells[i + 1], nb.state, nb.provider, outcome))

\* the notebook and the observation an operation leaves behind
Commit(op, index, run) ==
    /\ InBounds(run.nb.state)
    /\ cells' = run.nb.cells
    /\ state' = run.nb.state
    /\ provider' = run.nb.provider
    /\ last' = Observe(op, index, run.raised, run.log)
    /\ meta' = IF \E k \in 1..Len(run.log) : run.log[k].raised = ""
               THEN Touch(meta, clock) ELSE meta
    /\ UNCHANGED <<clock, doc, web>>

Notebook(step) == [cells |-> step.cells, state |-> step.state, provider |-> step.provider]

RunOne(step) == [nb |-> Notebook(step), raised |-> step.entry.raised, log |-> << step.entry >>]

\* a bounds check that stamps the notebook before it raises
RaiseIndexErrorStamped(i) ==
    /\ last' = Observe("execute_cell", i, "IndexError", <<>>)
    /\ meta' = Touch(meta, clock)
    /\ UNCHANGED <<cells, state, provider, clock, doc, web>>

\* raise IndexError(f"Cell index {cell_index} out of range")
RaiseIndexError(i) ==
    /\ last' = Observe("execute_cell", i, "IndexError", <<>>)
    /\ UNCHANGED <<cells, state, provider, meta, clock, doc, web>>

\* Notebook.execute_cell
ExecuteCell ==
    \E i \in -1..Len(cells), outcome \in Outcomes :
        IF i < 0 \/ i >= Len(cells)
        THEN RaiseIndexError(i)
        ELSE Commit("execute_cell", i,
                    RunOne(ExecuteStep([cells |-> cells, state |-> state,
                                        provider |-> provider], i, outcome)))

\* for i in range(len(self.cells)): self.execute_cell(i)
RECURSIVE RunAll(_, _, _, _)
\* a loop that hands every cell the state the run started its predecessor with
RunAllNextStale(step, i, outcomes, log) ==
    IF step.entry.raised # ""
    THEN [nb |-> Notebook(step), raised |-> step.entry.raised,
          log |-> Append(log, step.entry)]
    ELSE RunAll([cells |-> step.cells, state |-> step.entry.pre,
                 provider |-> step.provider],
                i + 1, outcomes, Append(log, step.entry))

\* after execute_cell(i): an exception ends the loop, otherwise on to i + 1
RunAllNext(step, i, outcomes, log) ==
    IF step.entry.raised # ""
    THEN [nb |-> Notebook(step), raised |-> step.entry.raised,
          log |-> Append(log, step.entry)]
    ELSE RunAll(Notebook(step), i + 1, outcomes, Append(log, step.entry))

RunAll(nb, i, outcomes, log) ==
    IF i >= Len(nb.cells) THEN [nb |-> nb, raised |-> "", log |-> log]
    ELSE RunAllNext(ExecuteStep(nb, i, outcomes[i + 1]), i, outcomes, log)

\* Notebook.execute_all_cells
ExecuteAllCells ==
    \E outcomes \in [1..Len(cells) -> Outcomes] :
        Commit("execute_all_cells", Len(cells),
               RunAll([cells |-> cells, state |-> state, provider |-> provider],
                      0, outcomes, <<>>))

\* Notebook.clear_state
ClearState ==
    /\ state' = EmptyDict
    /\ last' = Observe("clear_state", 0, "", <<>>)
    /\ UNCHANGED <<cells, provider, meta, clock, doc, web>>

\* a clear_outputs that stops after the first cell
ClearOutputsFirstOnly ==
    /\ cells' = [i \in 1..Len(cells) |->
                    IF i = 1 THEN [cells[i] EXCEPT !.outputs = <<>>] ELSE cells[i]]
    /\ last' = Observe("clear_outputs", 0, "", <<>>)
    /\ UNCHANGED <<state, provider, meta, clock, doc, web>>

\* Notebook.clear_outputs
ClearOutputs ==
    /\ cells' = [i \in 1..Len(cells) |-> [cells[i] EXCEPT !.outputs = <<>>]]
    /\ last' = Observe("clear_outputs", 0, "", <<>>)
    /\ UNCHANGED <<state, provider, meta, clock, doc, web>>

\* llm.set_provider, and a provider object installed from outside
SetProvider ==
    \E p \in {"mock", "openai", "stub"} :
        /\ provider' = p
        /\ last' = Observe("set_provider", 0, "", <<>>)
        /\ UNCHANGED <<cells, state, meta, clock, doc, web>>

\* create_memory_cell / create_computation_cell for a notebook of assignments
CreateAssignmentCell ==
    \E c \in AssignmentCells :
        AddCell(MaxCells, NewCell(c.kind, c.content, Uuid4(Len(cells) + 1), ""))

\* create_computation_cell for a notebook whose cells load and assign names
CreateShadowingCell ==
    \E content \in ShadowingContents :
        AddCell(MaxCells, NewCell("computation", content, Uuid4(Len(cells) + 1), ""))

\* create_memory_cell / create_computation_cell for a notebook whose
\* computation cells rebind, hide or mutate names, or print
CreateMergeCell ==
    \E c \in MergeCells :
        AddCell(MaxCells, NewCell(c.kind, c.content, Uuid4(Len(cells) + 1), ""))

\* the arguments callers hand to PromptCell: temperatures in tenths, names
Temperatures == {-1, 0, 7, 20, 21}
ResponseVars == {<<>>, << "answer" >>, << "" >>, << "2nd" >>, << "my var" >>}

\* the observation of a construction: the arguments and how it ended
ObserveInit(op, temperature, response_var, raised) ==
    [op |-> op, index |-> Len(cells), raised |-> raised, log |-> <<>>,
     args |-> [temperature |-> temperature, response_var |-> response_var]]

\* cell = PromptCell(...); self.add_cell(cell), once __init__ has ended as c
AddConstructed(op, temperature, response_var, c) ==
    IF c.raised # ""
    THEN /\ last' = ObserveInit(op, temperature, response_var, c.raised)
         /\ UNCHANGED <<cells, state, provider, meta, clock, doc, web>>
    ELSE /\ Len(cells) < MaxCells
         /\ cells' = Append(cells, c.cell)
         /\ last' = ObserveInit(op, temperature, response_var, "")
         /\ meta' = Touch(meta, clock)
         /\ UNCHANGED <<state, provider, clock, doc, web>>

\* Notebook.create_prompt_cell(content, temperature=...)
CreatePromptCellAt ==
    \E temperature \in Temperatures :
        AddConstructed("create_prompt_cell", temperature, <<>>,
                       PromptCellInit(PromptPlain, Uuid4(Len(cells) + 1), DefaultModel,
                                      temperature, <<>>))

\* add_cell(PromptCell(content, response_var=...))
AddPromptCellNamed ==
    \E response_var \in ResponseVars :
        AddConstructed("add_cell", DefaultTemperature, response_var,
                       PromptCellInit(PromptPlain, Uuid4(Len(cells) + 1), DefaultModel,
                                      DefaultTemperature, response_var))

\* create_prompt_cell with a prompt that needs no name of the state
CreatePlainPromptCell ==
    AddCell(MaxCells, NewCell("prompt", PromptPlain, Uuid4(Len(cells) + 1), ""))

\* the cells of a notebook that is edited, as created
EditableCells ==
    {[kind |-> "computation", content |-> CodeX],
     [kind |-> "memory", content |-> MemoryExpr]}

CreateEditableCell ==
    \E c \in EditableCells :
        AddCell(MaxCells, NewCell(c.kind, c.content, Uuid4(Len(cells) + 1), ""))

\* the contents the editor gives a cell of a kind
ContentsOf(kind) ==
    CASE kind = "markdown" -> MarkdownContents
      [] kind = "computation" -> {CodeX, CodeY}
      [] kind = "prompt" -> {PromptTopic, PromptTwo}
      [] kind = "memory" -> {MemoryTest, MemoryExpr}

\* the CLI's edit command: cell.content = new_content; cell.outputs = []
EditCell ==
    \E i \in 1..Len(cells) :
        \E content \in ContentsOf(cells[i].kind) :
            /\ cells' = [cells EXCEPT ![i] = [@ EXCEPT !.content = content,
                                                       !.outputs = <<>>]]
            /\ last' = Observe("edit", i - 1, "", <<>>)
            /\ UNCHANGED <<state, provider, meta, clock, doc, web>>

\* the edit command with code that does not parse typed into a computation cell
EditToUnparsable ==
    \E i \in 1..Len(cells) :
        /\ cells[i].kind = "computation"
        /\ cells[i].content # CodeSyntax
        /\ cells' = [cells EXCEPT ![i] = [@ EXCEPT !.content = CodeSyntax,
                                                   !.outputs = <<>>]]
        /\ last' = Observe("edit", i - 1, "", <<>>)
        /\ UNCHANGED <<state, provider, meta, clock, doc, web>>

\* the delete command: del self.notebook.cells[index]
DeleteCell ==
    \E i \in 1..Len(cells) :
        /\ cells' = [k \in 1..(Len(cells) - 1) |-> IF k < i THEN cells[k] ELSE cells[k + 1]]
        /\ last' = Observe("delete_cell", i - 1, "", <<>>)
        /\ UNCHANGED <<state, provider, meta, clock, doc, web>>

\* any(var in cell.state_dependencies for var in prev_cell.state_produces)
DependsOn(cell, prev_cell) == \E var \in prev_cell.produces : var \in cell.deps

\* for i in range(cell_index): ... dependencies.add(i)
RECURSIVE ScanPrevious(_, _, _, _)
\* the scan with range(len(self.cells)) in place of range(cell_index)
RECURSIVE ScanEveryCell(_, _, _, _)
ScanEveryCell(cs, cell_index, i, dependencies) ==
    IF i >= Len(cs) THEN dependencies
    ELSE ScanEveryCell(cs, cell_index, i + 1,
                       IF DependsOn(cs[cell_index + 1], cs[i + 1])
                       THEN dependencies \cup {i} ELSE dependencies)

ScanPrevious(cs, cell_index, i, dependencies) ==
    IF i >= cell_index THEN dependencies
    ELSE ScanPrevious(cs, cell_index, i + 1,
                      IF DependsOn(cs[cell_index + 1], cs[i + 1])
                      THEN dependencies \cup {i} ELSE dependencies)

\* Notebook.get_cell_dependencies
GetCellDependencies(cs, cell_index) ==
    IF cell_index < 0 \/ cell_index >= Len(cs)
    THEN [raised |-> "IndexError", value |-> {}]
    ELSE [raised |-> "", value |-> ScanPrevious(cs, cell_index, 0, {})]

\* for i in range(cell_index + 1, len(self.cells)): ... dependents.add(i)
RECURSIVE ScanFollowing(_, _, _, _)
\* the scan with the two cells' roles swapped in the test
RECURSIVE ScanFollowingSwapped(_, _, _, _)
ScanFollowingSwapped(cs, cell_index, i, dependents) ==
    IF i >= Len(cs) THEN dependents
    ELSE ScanFollowingSwapped(cs, cell_index, i + 1,
                              IF DependsOn(cs[cell_index + 1], cs[i + 1])
                              THEN dependents \cup {i} ELSE dependents)

ScanFollowing(cs, cell_index, i, dependents) ==
    IF i >= Len(cs) THEN dependents
    ELSE ScanFollowing(cs, cell_index, i + 1,
                       IF DependsOn(cs[i + 1], cs[cell_index + 1])
                       THEN dependents \cup {i} ELSE dependents)

\* Notebook.get_dependent_cells
GetDependentCells(cs, cell_index) ==
    IF cell_index < 0 \/ cell_index >= Len(cs)
    THEN [raised |-> "IndexError", value |-> {}]
    ELSE [raised |-> "", value |-> ScanFollowing(cs, cell_index, cell_index + 1, {})]

\* Notebook.get_execution_graph
GetExecutionGraph(cs) ==
    [i \in 0..(Len(cs) - 1) |-> GetCellDependencies(cs, i).value]

\* ------------------------------------------------------------ persistence
\* create_prompt_cell(content, model=..., temperature=...) with its own config
TunedModel == "gpt-3.5-turbo"
TunedTemperature == 12

CreateTunedPromptCell ==
    AddCell(MaxCells, [NewCell("prompt", PromptTopic, Uuid4(Len(cells) + 1), "")
                          EXCEPT !.model = TunedModel, !.temperature = TunedTemperature])

\* the web adapter's update_notebook: notebook.name = data['name']
Rename ==
    /\ meta.name # "Demo"
    /\ meta' = [meta EXCEPT !.name = "Demo"]
    /\ last' = Observe("rename", 0, "", <<>>)
    /\ UNCHANGED <<cells, state, provider, clock, doc, web>>

\* cell.__class__.__name__
ClassName(kind) ==
    CASE kind = "markdown" -> "MarkdownCell"
      [] kind = "computation" -> "ComputationCell"
      [] kind = "prompt" -> "PromptCell"
      [] kind = "memory" -> "MemoryCell"

\* one element of to_dict()["cells"]; model and temperature for a PromptCell only
CellToDict(cell) ==
    [cell_id |-> cell.cell_id, type |-> ClassName(cell.kind),
     content |-> cell.content.text, outputs |-> cell.outputs]
    @@ (IF cell.kind = "prompt"
        THEN [model |-> cell.model, temperature |-> cell.temperature]
        ELSE EmptyDict)

\* a to_dict that stores the state itself under state_keys
ToDictWithValues(cs, st, m) ==
    [notebook_id |-> m.notebook_id, name |-> m.name, created_at |-> m.created_at,
     updated_at |-> m.updated_at, metadata |-> m.metadata,
     cells |-> [i \in 1..Len(cs) |-> CellToDict(cs[i])],
     state_keys |-> {<<k, st[k]>> : k \in DOMAIN st}]

\* Notebook.to_dict; state_keys holds each key of the state once (the order of
\* the list, the dict's insertion order, is not modelled)
ToDict(cs, st, m) ==
    [notebook_id |-> m.notebook_id, name |-> m.name, created_at |-> m.created_at,
     updated_at |-> m.updated_at, metadata |-> m.metadata,
     cells |-> [i \in 1..Len(cs) |-> CellToDict(cs[i])],
     state_keys |-> DOMAIN st]

\* Notebook.save: refresh updated_at, then json.dump(self.to_dict(), f); the
\* document holds strings, numbers, lists and string-keyed dicts only, which
\* json.load gives back unchanged
Save ==
    /\ meta' = Touch(meta, clock)
    /\ doc' = << ToDict(cells, state, Touch(meta, clock)) >>
    /\ last' = Observe("save", 0, "", <<>>)
    /\ UNCHANGED <<cells, state, provider, clock, web>>

\* the file is edited by hand: a cell record gets a type tag load() does not know
TamperDoc ==
    /\ doc # <<>>
    /\ \E k \in 1..Len(doc[1].cells) :
          /\ doc' = << [doc[1] EXCEPT !.cells[k].type = "UnknownCell"] >>
          /\ last' = Observe("tamper", k - 1, "", <<>>)
    /\ UNCHANGED <<cells, state, provider, meta, clock, web>>

\* the content a cell constructor receives as text
AllContents ==
    ComputationContents \cup MarkdownContents \cup PromptContents
        \cup {PromptTwo, PromptPlain} \cup MemoryContents \cup {CodeLast, MemoryLast}

ParseContent(text) == CHOOSE c \in AllContents : c.text = text

\* the cell constructors load() dispatches to, by the record's type tag
KindOfType(type) ==
    CASE type = "MarkdownCell" -> "markdown"
      [] type = "ComputationCell" -> "computation"
      [] type = "PromptCell" -> "prompt"
      [] type = "MemoryCell" -> "memory"
      [] OTHER -> ""

\* a restored cell without its outputs
LoadCellNoOutputs(rec) ==
    IF KindOfType(rec.type) = ""
    THEN [raised |-> "ValueError", cell |-> <<>>]
    ELSE [raised |-> "",
          cell |-> [NewCell(KindOfType(rec.type), ParseContent(rec.content),
                            rec.cell_id, "")
                       EXCEPT !.model = IF "model" \in DOMAIN rec THEN rec.model ELSE @,
                              !.temperature = IF "temperature" \in DOMAIN rec
                                              THEN rec.temperature ELSE @]]

\* the body of load()'s loop for one cell record: construct the cell by its
\* type tag (PromptCell.__init__ checks the temperature), restore its outputs
LoadCell(rec) ==
    IF KindOfType(rec.type) = ""
    THEN [raised |-> "ValueError", cell |-> <<>>]
    ELSE IF rec.type = "PromptCell" /\ "temperature" \in DOMAIN rec
            /\ (rec.temperature < 0 \/ rec.temperature > 20)
    THEN [raised |-> "ValueError", cell |-> <<>>]
    ELSE [raised |-> "",
          cell |-> [NewCell(KindOfType(rec.type), ParseContent(rec.content),
                            rec.cell_id, "")
                       EXCEPT !.model = IF "model" \in DOMAIN rec THEN rec.model ELSE @,
                              !.temperature = IF "temperature" \in DOMAIN rec
                                              THEN rec.temperature ELSE @,
                              !.outputs = rec.outputs]]

\* for cell_data in data.get('cells', []): ... notebook.add_cell(cell)
RECURSIVE LoadCells(_, _, _)
\* a loop that skips a record it cannot construct
LoadCellsNextSkip(records, i, acc, c) ==
    IF c.raised # "" THEN LoadCells(records, i + 1, acc)
    ELSE LoadCells(records, i + 1, Append(acc, c.cell))

\* after the constructor: an exception leaves load(), otherwise the next record
LoadCellsNext(records, i, acc, c) ==
    IF c.raised # "" THEN [raised |-> c.raised, cells |-> <<>>]
    ELSE LoadCells(records, i + 1, Append(acc, c.cell))

LoadCells(records, i, acc) ==
    IF i > Len(records) THEN [raised |-> "", cells |-> acc]
    ELSE LoadCellsNext(records, i, acc, LoadCell(records[i]))

\* what load() hands back once the loop has ended as r: nothing when it raised,
\* else the notebook; add_cell has refreshed updated_at for every cell
LoadReturn(data, now, r) ==
    IF r.raised # ""
    THEN [raised |-> r.raised, returned |-> FALSE, cells |-> <<>>, state |-> EmptyDict,
          meta |-> NewMeta("", now)]
    ELSE [raised |-> "", returned |-> TRUE, cells |-> r.cells, state |-> EmptyDict,
          meta |-> [name |-> data.name, notebook_id |-> data.notebook_id,
                    created_at |-> data.created_at,
                    updated_at |-> IF Len(r.cells) > 0 THEN now ELSE data.updated_at,
                    metadata |-> data.metadata]]

\* Notebook.load
LoadDocument(data, now) == LoadReturn(data, now, LoadCells(data.cells, 1, <<>>))

\* the caller of load(): the loaded notebook replaces the current one, or the
\* exception is reported and the current notebook stays
LoadCommit(r) ==
    IF r.returned
    THEN /\ cells' = r.cells
         /\ state' = r.state
         /\ meta' = r.meta
         /\ last' = Observe("load", Len(r.cells), "", <<>>)
    ELSE /\ last' = Observe("load", 0, r.raised, <<>>)
         /\ UNCHANGED <<cells, state, meta>>

Load ==
    /\ doc # <<>>
    /\ LoadCommit(LoadDocument(doc[1], clock))
    /\ UNCHANGED <<provider, clock, doc, web>>

\* ---- the web adapter: POST /api/notebooks/<id>/cells/<cell_id>/execute ----

\* code cells posted through the adapter
WebContents == {CodeX, CodeY, CodeExit}

\* create_cell with type 'code': notebook.create_computation_cell(content)
WebCreateCell ==
    \E c \in WebContents :
        AddCell(MaxCells, NewCell("computation", c, Uuid4(Len(cells) + 1), ""))

\* socketio.emit(type, {'notebook_id': ..., 'cell_id': ..., 'outputs': ...})
Event(type, cell_id, outputs) == [type |-> type, cell_id |-> cell_id, outputs |-> outputs]

Emit(e) == [web EXCEPT !.events = Append(web.events, e)]

\* the execute and execute_all requests that emitted their started event so far
StartedCount ==
    Cardinality({j \in 1..Len(web.events) :
                    web.events[j].type \in {"cell_execution_started",
                                            "notebook_execution_started"}})

\* the route up to its first emit: the loop finds the cell with the id, or the
\* request ends with 404 'Cell not found'
WebExecuteStarted(W) ==
    /\ StartedCount < MaxRequests
    /\ \E t \in W, n \in 1..MaxCells :
          /\ web.reqs[t].pc = "idle"
          /\ IF \E i \in 1..Len(cells) : cells[i].cell_id = Uuid4(n)
             THEN LET i == CHOOSE i \in 1..Len(cells) : cells[i].cell_id = Uuid4(n)
                  IN /\ web' = [Emit(Event("cell_execution_started", Uuid4(n), <<>>))
                                   EXCEPT !.reqs[t] = [pc |-> "started", index |-> i - 1]]
                     /\ last' = Observe("web_started", i - 1, "", <<>>)
             ELSE /\ last' = Observe("web_not_found", NoIndex, "", <<>>)
                  /\ UNCHANGED web
    /\ UNCHANGED <<cells, state, provider, meta, clock, doc>>

\* exceptions that are not subclasses of Exception
BaseExceptions == {"SystemExit"}

\* updated_state = cell.execute(notebook.state): the cell works on a copy of the
\* state it is handed, and records its outputs, reads and writes on itself. An
\* exception `except Exception` catches is answered with cell_execution_failed;
\* any other one ends the request thread
WebCellExecute(W) ==
    \E t \in W, outcome \in Outcomes :
        /\ web.reqs[t].pc = "started"
        /\ LET i == web.reqs[t].index
               nb == [cells |-> cells, state |-> state, provider |-> provider]
               step == ExecuteStep(nb, i, outcome)
           IN /\ cells' = step.cells
              /\ provider' = step.provider
              /\ last' = Observe("web_executed", i, step.entry.raised, << step.entry >>)
              /\ web' =
                   IF step.entry.raised = ""
                   THEN [web EXCEPT !.reqs[t] = [pc |-> "executed", index |-> i,
                                                 nb |-> nb, updated_state |-> step.state]]
                   ELSE IF step.entry.raised \in BaseExceptions
                   THEN [web EXCEPT !.reqs[t] = IdleRequest]
                   ELSE [Emit(Event("cell_execution_failed", cells[i + 1].cell_id, <<>>))
                            EXCEPT !.reqs[t] = IdleRequest]
        /\ UNCHANGED <<state, meta, clock, doc>>

\* notebook.state = updated_state; socketio.emit('cell_execution_completed', ...)
WebCellCompleted(W) ==
    \E t \in W :
        /\ web.reqs[t].pc = "executed"
        /\ LET r == web.reqs[t]
           IN /\ state' = r.updated_state
              /\ web' = [Emit(Event("cell_execution_completed", cells[r.index + 1].cell_id,
                                     cells[r.index + 1].outputs))
                            EXCEPT !.reqs[t] = IdleRequest]
              /\ last' = Observe("web_completed", r.index, "", <<>>)
        /\ UNCHANGED <<cells, provider, meta, clock, doc>>

Next ==
    \/ CreateMarkdownCell
    \/ CreateComputationCell
    \/ CreatePromptCell
    \/ CreateMemoryCell
    \/ AddNamedPromptCell
    \/ ExecuteCell
    \/ ExecuteAllCells
    \/ ClearState
    \/ SetProvider

Spec == Init /\ [][Next]_vars

\* a notebook of computation cells only, up to MaxCodeCells of them
NextCode ==
    \/ CreateCodeCell
    \/ ExecuteCell
    \/ ExecuteAllCells
    \/ ClearState

SpecCode == Init /\ [][NextCode]_vars

\* notebooks whose cells touch the reserved name `_`
NextReserved ==
    \/ CreateReservedCell
    \/ CreatePromptCell
    \/ CreateMarkdownCell
    \/ ExecuteCell
    \/ ExecuteAllCells
    \/ ClearState

SpecReserved == Init /\ [][NextReserved]_vars

\* notebooks of memory cells whose assignments may not evaluate
NextAssign ==
    \/ CreateAssignmentCell
    \/ ExecuteCell
    \/ ExecuteAllCells
    \/ ClearState

SpecAssign == Init /\ [][NextAssign]_vars

\* notebooks of computation cells that load and assign the same names
NextShadow ==
    \/ CreateShadowingCell
    \/ ExecuteCell
    \/ ExecuteAllCells
    \/ ClearState

SpecShadow == Init /\ [][NextShadow]_vars

\* notebooks whose computation cells rebind, hide or mutate names, or print
NextMerge ==
    \/ CreateMergeCell
    \/ ExecuteCell
    \/ ExecuteAllCells
    \/ ClearState

SpecMerge == Init /\ [][NextMerge]_vars

\* notebooks whose cells are edited between executions
NextEdit ==
    \/ CreateEditableCell
    \/ EditCell
    \/ ExecuteCell
    \/ ExecuteAllCells
    \/ ClearState

SpecEdit == Init /\ [][NextEdit]_vars

\* notebooks in which working code is replaced by code that does not parse
NextReparse ==
    \/ CreateEditableCell
    \/ EditToUnparsable
    \/ ExecuteCell
    \/ ExecuteAllCells
    \/ ClearState

SpecReparse == Init /\ [][NextReparse]_vars

\* time passes between two calls: datetime.now() gives a later reading
Tick ==
    /\ clock < MaxClock
    /\ clock' = clock + 1
    /\ UNCHANGED <<cells, state, provider, last, meta, doc, web>>

\* notebooks whose operations are called at different times
NextTime ==
    \/ CreateEditableCell
    \/ ExecuteCell
    \/ ExecuteAllCells
    \/ Tick

SpecTime == Init /\ [][NextTime]_vars

\* notebooks whose cells are added, executed and deleted at different times
NextStamp ==
    \/ CreateEditableCell
    \/ ExecuteCell
    \/ ExecuteAllCells
    \/ ClearState
    \/ DeleteCell
    \/ Tick

SpecStamp == Init /\ [][NextStamp]_vars

\* notebooks of prompt cells that are executed while the provider is swapped
NextProvider ==
    \/ CreatePlainPromptCell
    \/ ExecuteCell
    \/ ExecuteAllCells
    \/ ClearState
    \/ SetProvider

SpecProvider == Init /\ [][NextProvider]_vars

\* notebooks whose state and outputs are cleared between executions
NextClear ==
    \/ CreateEditableCell
    \/ ExecuteCell
    \/ ExecuteAllCells
    \/ ClearState
    \/ ClearOutputs

SpecClear == Init /\ [][NextClear]_vars

\* a field of the request's JSON body: absent, or present with one of the values
Field(values) == {<<>>} \cup {<< v >> : v \in values}

\* PUT /api/notebooks/<id>/cells/<cell_id>: the fields present in the body are
\* assigned to the cell as they come, model and temperature on prompt cells
\* only, and the outputs are cleared
WebUpdateCell ==
    \E i \in 1..Len(cells) :
        \E content \in Field(ContentsOf(cells[i].kind)), model \in Field({TunedModel}),
           temperature \in Field(Temperatures) :
            LET cell == cells[i]
                prompt == cell.kind = "prompt"
            IN /\ cells' = [cells EXCEPT ![i] =
                     [cell EXCEPT
                        !.content = IF content # <<>> THEN content[1] ELSE @,
                        !.model = IF prompt /\ model # <<>> THEN model[1] ELSE @,
                        !.temperature = IF prompt /\ temperature # <<>>
                                        THEN temperature[1] ELSE @,
                        !.outputs = <<>>]]
               /\ last' = Observe("web_update_cell", i - 1, "", <<>>)
               /\ UNCHANGED <<state, provider, meta, clock, doc, web>>

\* POST /api/notebooks/<id>/execute_all: notebook.execute_all_cells() between
\* notebook_execution_started and notebook_execution_completed, the request
\* thread running the loop without another request in between; an exception
\* `except Exception` does not catch ends the thread after the first event
WebExecuteAll ==
    /\ StartedCount < MaxRequests
    /\ \E outcomes \in [1..Len(cells) -> Outcomes] :
          LET run == RunAll([cells |-> cells, state |-> state, provider |-> provider],
                            0, outcomes, <<>>)
              begun == Append(web.events, Event("notebook_execution_started", "", <<>>))
          IN /\ InBounds(run.nb.state)
             /\ cells' = run.nb.cells
             /\ state' = run.nb.state
             /\ provider' = run.nb.provider
             /\ last' = Observe("web_execute_all", Len(cells), run.raised, run.log)
             /\ meta' = IF \E k \in 1..Len(run.log) : run.log[k].raised = ""
                        THEN Touch(meta, clock) ELSE meta
             /\ web' = [web EXCEPT !.events =
                          IF run.raised = ""
                          THEN Append(begun, Event("notebook_execution_completed", "", <<>>))
                          ELSE IF run.raised \in BaseExceptions THEN begun
                          ELSE Append(begun, Event("notebook_execution_failed", "", <<>>))]
    /\ UNCHANGED <<clock, doc>>

\* no request is being served
Quiet == \A t \in Workers : web.reqs[t].pc = "idle"

\* a create_cell request served while no execute request is
WebCreateCellQuiet == Quiet /\ WebCreateCell

\* notebooks served by the web adapter, its request threads running side by side
NextWeb ==
    \/ WebCreateCell
    \/ WebExecuteStarted(Workers)
    \/ WebCellExecute(Workers)
    \/ WebCellCompleted(Workers)
    \/ WebExecuteAll

SpecWeb == Init /\ [][NextWeb]_vars

\* notebooks served by the web adapter one request at a time, at different times
NextWebSeq ==
    \/ WebCreateCellQuiet
    \/ WebExecuteStarted({1})
    \/ WebCellExecute({1})
    \/ WebCellCompleted({1})
    \/ Tick

SpecWebSeq == Init /\ [][NextWebSeq]_vars

\* notebooks whose prompt cells are constructed from the callers' arguments
NextConstruct ==
    \/ CreatePromptCellAt
    \/ AddPromptCellNamed
    \/ ExecuteCell
    \/ ExecuteAllCells
    \/ Tick

SpecConstruct == Init /\ [][NextConstruct]_vars

\* create_prompt_cell on a notebook without cells
CreateFirstPromptCell == cells = <<>> /\ CreatePromptCellAt

\* notebooks whose prompt cell is created, updated through the web adapter,
\* executed, saved and loaded
NextUpdate ==
    \/ CreateFirstPromptCell
    \/ WebUpdateCell
    \/ ExecuteCell
    \/ Save
    \/ Load

SpecUpdate == Init /\ [][NextUpdate]_vars

\* cells that bind, delete and fill names
DeletingCells ==
    {[kind |-> "computation", content |-> c] : c \in {CodeX, CodeDel, CodeDelFail}}
        \cup {[kind |-> "memory", content |-> MemoryTest]}
        \cup {[kind |-> "prompt", content |-> PromptPlain]}

CreateDeletingCell ==
    \E c \in DeletingCells :
        AddCell(MaxCells, NewCell(c.kind, c.content, Uuid4(Len(cells) + 1), ""))

\* notebooks whose cells delete names of the state
NextDel ==
    \/ CreateDeletingCell
    \/ ExecuteCell
    \/ ExecuteAllCells
    \/ ClearState

SpecDel == Init /\ [][NextDel]_vars

\* notebooks that are saved and loaded at different times
NextRestore ==
    \/ CreateEditableCell
    \/ ExecuteCell
    \/ Save
    \/ Load
    \/ Tick

SpecRestore == Init /\ [][NextRestore]_vars

\* notebooks that are saved to and loaded from the file
NextPersist ==
    \/ CreateTunedPromptCell
    \/ AddNamedPromptCell
    \/ CreateEditableCell
    \/ CreateMarkdownCell
    \/ ExecuteAllCells
    \/ Rename
    \/ Save
    \/ TamperDoc
    \/ Load

SpecPersist == Init /\ [][NextPersist]_vars

\* ------------------------------------------------------------ observations
\* the evaluations the most recent operation made, in order
Log == last.log

LogIndices == 1..Len(last.log)

HasOutput(outputs, type) == \E j \in 1..Len(outputs) : outputs[j].type = type

\* the evaluation reported a failure: an error record, or an escaped exception
Failed(e) == HasOutput(e.outputs, "error") \/ e.raised # ""

\* exactly one output record, of type error
SingleError(outputs) == Len(outputs) = 1 /\ outputs[1].type = "error"

\* the cell an evaluation of the most recent operation ran
CellOf(e) == cells[e.index + 1]

HasMalformedUpdate(content) ==
    \E j \in 1..Len(content.body) :
        content.body[j].op \in {"update_malformed", "update_nondict"}

\* ------------------------------------------------------------ claims

\* the evaluation applied every update of its cell: it did not fail, or it is
\* a memory cell that processed every line and reported its memory_update
FullyApplied(e) ==
    \/ ~Failed(e)
    \/ e.kind = "memory" /\ HasOutput(e.outputs, "memory_update")

\* C1: after execute_cell the notebook state is the state before the call or
\* the state with all of the cell's updates applied; a state holding only some
\* of the cell's updates is never observable, also when the evaluation fails
\* part-way through.
ClaimC1_NoPartialState ==
    \A k \in LogIndices : Log[k].post = Log[k].pre \/ FullyApplied(Log[k])

\* C2: a computation cell whose code raises an exception yields exactly one
\* error record (no stdout record) and leaves the notebook state identical to
\* the state before the execution.
ClaimC2_ComputationErrorKeepsState ==
    \A k \in LogIndices :
        (Log[k].kind = "computation" /\ Log[k].raised = ""
            /\ HasOutput(Log[k].outputs, "error"))
        => /\ SingleError(Log[k].outputs)
           /\ Log[k].post = Log[k].pre

\* C3: a memory cell with a malformed memory.update(...) line returns the
\* pre-execution state, discarding the updates of its other lines, and its
\* outputs are a single error record.
ClaimC3_MalformedUpdateDiscardsAll ==
    \A k \in LogIndices :
        (Log[k].kind = "memory" /\ HasMalformedUpdate(CellOf(Log[k]).content))
        => /\ SingleError(Log[k].outputs)
           /\ Log[k].post = Log[k].pre

\* C4: when the generation provider fails while a prompt cell executes, for
\* every provider, the outputs are a single error record, no llm_response is
\* recorded and the state is unchanged.
ClaimC4_ProviderFailureIsError ==
    \A k \in LogIndices :
        (Log[k].kind = "prompt" /\ Log[k].call.invoked /\ Log[k].call.failed)
        => /\ SingleError(Log[k].outputs)
           /\ ~HasOutput(Log[k].outputs, "llm_response")
           /\ Log[k].post = Log[k].pre

\* C5: a prompt cell whose template names a placeholder absent from the state
\* yields exactly one error output reporting a missing variable, leaves the
\* state unchanged, and does not invoke the generation capability.
ThmC5_MissingVariable ==
    \A k \in LogIndices :
        LET e == Log[k]
            absent == TemplateVars(CellOf(e).content) \ DOMAIN e.pre
        IN (e.kind = "prompt" /\ absent # {})
           => /\ SingleError(e.outputs)
              /\ \E v \in absent :
                    e.outputs[1].content = "Missing variable in state: '" \o v \o "'"
              /\ e.post = e.pre
              /\ ~e.call.invoked
              /\ e.raised = ""

\* C5 witness: the template "{x} and {z}" was executed with x bound and z absent
WitC5_MissingVariable ==
    \E k \in LogIndices :
        /\ Log[k].kind = "prompt"
        /\ CellOf(Log[k]).content.text = "{x} and {z}"
        /\ "x" \in DOMAIN Log[k].pre
        /\ "z" \notin DOMAIN Log[k].pre
        /\ Log[k].outputs = << Output("error", "Missing variable in state: 'z'") >>

\* C6: for a valid index, Notebook.execute_cell never raises, whatever the
\* cell's kind and content: every failure is only an output record.
ClaimC6_ExecuteCellNeverRaises ==
    (last.op = "execute_cell" /\ last.index >= 0 /\ last.index < Len(cells))
    => last.raised = ""

\* C7: execute_all_cells executes every cell exactly once, in increasing index
\* order from 0; a failing cell does not stop the run, and the cell after a
\* failed cell is evaluated against the state as it was before the failed cell.
ClaimC7_ExecuteAllContinues ==
    last.op = "execute_all_cells"
    => /\ last.raised = ""
       /\ Len(Log) = Len(cells)
       /\ \A k \in LogIndices : Log[k].index = k - 1
       /\ \A k \in LogIndices :
             (k < Len(Log) /\ Failed(Log[k])) => Log[k + 1].pre = Log[k].pre

\* C8: each cell is evaluated against exactly the state the most recently
\* executed cell returned, and names bound by earlier cells stay in the state:
\* execute_all_cells on `x = 1`, `y = x + 1`, `z = y + 1` yields x = 1, y = 2, z = 3.
ThmC8_StateThreading ==
    last.op = "execute_all_cells"
    => /\ \A k \in LogIndices : k < Len(Log) => Log[k + 1].pre = Log[k].post
       /\ \A k \in LogIndices : DOMAIN Log[k].pre \subseteq DOMAIN Log[k].post
       /\ Len(Log) > 0 => state = Log[Len(Log)].post
       /\ (/\ Len(cells) = 3
           /\ cells[1].content.text = "x = 1"
           /\ cells[2].content.text = "y = x + 1"
           /\ cells[3].content.text = "z = y + 1")
          => /\ {"x", "y", "z"} \subseteq DOMAIN state
             /\ state["x"] = IntV(1)
             /\ state["y"] = IntV(2)
             /\ state["z"] = IntV(3)

\* C8 witness: the three-cell chain has been run by execute_all_cells
WitC8_StateThreading ==
    /\ last.op = "execute_all_cells"
    /\ Len(Log) = 3
    /\ cells[1].content.text = "x = 1"
    /\ cells[2].content.text = "y = x + 1"
    /\ cells[3].content.text = "z = y + 1"
    /\ Log[3].post = Log[3].pre @@ ("z" :> IntV(3))

\* C9: a prompt cell created without an explicit name and executed through
\* Notebook.execute_cell at index i stores its response under response_<i>.
ClaimC9_ResponseNamedByIndex ==
    \A k \in LogIndices :
        (/\ Log[k].kind = "prompt"
         /\ HasOutput(Log[k].outputs, "llm_response")
         /\ CellOf(Log[k]).response_var = "")
        => /\ ("response_" \o ToString(Log[k].index)) \in DOMAIN Log[k].post
           /\ Log[k].post["response_" \o ToString(Log[k].index)]
                 = StrV(Log[k].outputs[1].content)

\* the formatted prompt the templates of the catalog must produce
ExpectedPrompt(text, pre) ==
    CASE text = "Tell me about {topic}" -> "Tell me about " \o PyStr(pre["topic"])
      [] text = "{x} and {z}" -> PyStr(pre["x"]) \o " and " \o PyStr(pre["z"])

\* C10: a successful prompt execution passes the template with every
\* placeholder replaced by its state value, with the cell's model and
\* temperature, to generate(); records exactly one llm_response output with
\* that prompt and the returned text; and returns the previous state except
\* that the response variable and `_` hold the returned text, both names
\* being added to the cell's produced names.
ThmC10_PromptSuccess ==
    \A k \in LogIndices :
        LET e == Log[k]
            cell == CellOf(e)
            text == e.outputs[1].content
        IN (e.kind = "prompt" /\ HasOutput(e.outputs, "llm_response"))
           => /\ e.call.invoked
              /\ e.call.prompt = ExpectedPrompt(cell.content.text, e.pre)
              /\ e.call.model = cell.model
              /\ e.call.temperature = cell.temperature
              /\ (cell.content.text = "Tell me about {topic}"
                    /\ e.pre["topic"] = StrV("Python"))
                 => e.call.prompt = "Tell me about Python"
              /\ (cell.content.text = "{x} and {z}" /\ e.pre["x"] = IntV(42)
                    /\ e.pre["z"] = ListV(<<1, 2, 3>>))
                 => e.call.prompt = "42 and [1, 2, 3]"
              /\ e.outputs = << LlmResponseOutput(e.call.prompt, text) >>
              /\ \E rv \in DOMAIN e.post :
                    /\ IF cell.response_var # "" THEN rv = cell.response_var
                       ELSE Len(rv) > 9 /\ SubSeq(rv, 1, 9) = "response_"
                    /\ DOMAIN e.post = DOMAIN e.pre \cup {rv, "_"}
                    /\ e.post[rv] = StrV(text)
                    /\ e.post["_"] = StrV(text)
                    /\ \A n \in DOMAIN e.pre \ {rv, "_"} : e.post[n] = e.pre[n]
                    /\ {rv, "_"} \subseteq cell.produces

\* C10 witness: both templates have been answered, one by the installed stub
WitC10_PromptSuccess ==
    \E k \in LogIndices :
        /\ Log[k].kind = "prompt"
        /\ Log[k].call.prompt = "42 and [1, 2, 3]"
        /\ Log[k].outputs = << LlmResponseOutput("42 and [1, 2, 3]",
                                                 "This is a mock response.") >>
        /\ Log[k].post["answer"] = StrV("This is a mock response.")
        /\ Log[k].post["_"] = StrV("This is a mock response.")

\* C11: if the state holds `_`, its value is the response of the most recent
\* successful prompt execution: a successful prompt execution sets `_` to its
\* response, and executing any other cell neither adds, removes nor changes `_`.
ClaimC11_LastResponse ==
    \A k \in LogIndices :
        LET e == Log[k]
        IN IF e.kind = "prompt" /\ HasOutput(e.outputs, "llm_response")
           THEN "_" \in DOMAIN e.post /\ e.post["_"] = StrV(e.outputs[1].content)
           ELSE /\ ("_" \in DOMAIN e.post) = ("_" \in DOMAIN e.pre)
                /\ "_" \in DOMAIN e.pre => e.post["_"] = e.pre["_"]

\* the names the statements of a cell's current content can bind in the state
AssignedNames(cell) ==
    CASE cell.kind = "markdown" -> {}
      [] cell.kind = "prompt" -> {ResponseVar(cell), "_"}
      [] OTHER ->
            LET body == cell.content.body
            IN {body[j].tgt : j \in {n \in 1..Len(body) :
                    body[n].op \in {"const", "add", "lit_int", "lit_str", "expr_add"}}}
               \cup UNION {DOMAIN body[j].d : j \in 1..Len(body)}

\* the names a cell's current content can read from the state
LoadedNames(cell) ==
    CASE cell.kind = "markdown" -> {}
      [] cell.kind = "prompt" -> TemplateVars(cell.content)
      [] OTHER ->
            LET body == cell.content.body
            IN {body[j].src : j \in {n \in 1..Len(body) :
                    body[n].op \in {"add", "expr_add"}}}
               \cup {body[j].tgt : j \in {n \in 1..Len(body) : body[n].op = "append"}}
               \cup UNION {{body[j].d[k].s : k \in DOMAIN body[j].d} : j \in 1..Len(body)}

\* C12: a cell's reads and writes reflect only its most recent execution: once
\* a cell has been executed they hold no name that the executed content
\* cannot read (write), also when the content was edited since an earlier
\* run, and once every cell has been executed the dependency graph has no
\* edge that rests on such a name.
ClaimC12_NoStaleReadsWrites ==
    /\ \A k \in LogIndices :
          /\ CellOf(Log[k]).produces \subseteq AssignedNames(CellOf(Log[k]))
          /\ CellOf(Log[k]).deps \subseteq LoadedNames(CellOf(Log[k]))
    /\ (last.op = "execute_all_cells" /\ Len(Log) = Len(cells))
       => \A i \in 1..Len(cells) :
             /\ \A j \in GetCellDependencies(cells, i - 1).value :
                   AssignedNames(cells[j + 1]) \cap LoadedNames(cells[i]) # {}
             /\ \A j \in GetDependentCells(cells, i - 1).value :
                   AssignedNames(cells[i]) \cap LoadedNames(cells[j + 1]) # {}

\* the valid indices of the notebook
CellIndices == 0..(Len(cells) - 1)

\* the last-recorded writes of cell j meet the last-recorded reads of cell i
WritesMeetReads(j, i) == cells[j + 1].produces \cap cells[i + 1].deps # {}

\* C13: get_cell_dependencies(i) is exactly the set of j < i whose recorded
\* writes meet the recorded reads of i, get_execution_graph maps every index
\* to exactly that set, and for `x = 1`, `y = x + 1` executed in order the
\* dependencies of cell 1 are {0}.
ThmC13_Dependencies ==
    /\ DOMAIN GetExecutionGraph(cells) = CellIndices
    /\ \A i \in CellIndices :
          /\ GetCellDependencies(cells, i).raised = ""
          /\ GetCellDependencies(cells, i).value
                = {j \in CellIndices : j < i /\ WritesMeetReads(j, i)}
          /\ GetExecutionGraph(cells)[i] = GetCellDependencies(cells, i).value
    /\ (/\ last.op = "execute_all_cells"
        /\ Len(cells) = 2
        /\ cells[1].content.text = "x = 1"
        /\ cells[2].content.text = "y = x + 1")
       => /\ GetCellDependencies(cells, 1).value = {0}
          /\ GetCellDependencies(cells, 0).value = {}

\* C13 witness: `x = 1`, `y = x + 1` have been executed in order and the graph
\* holds the one edge
WitC13_Dependencies ==
    /\ last.op = "execute_all_cells"
    /\ Len(cells) = 2
    /\ cells[1].content.text = "x = 1"
    /\ cells[2].content.text = "y = x + 1"
    /\ state["y"] = IntV(2)
    /\ GetExecutionGraph(cells) = (0 :> {} @@ 1 :> {0})

\* C14: for all valid indices i and j, j is in get_cell_dependencies(i) if and
\* only if i is in get_dependent_cells(j).
ThmC14_Symmetry ==
    \A i \in CellIndices, j \in CellIndices :
        (j \in GetCellDependencies(cells, i).value)
            = (i \in GetDependentCells(cells, j).value)

\* C14 witness: a prompt cell depends on the memory cell before it, which has
\* it as a dependent
WitC14_Symmetry ==
    /\ Len(cells) = 2
    /\ cells[1].kind = "memory"
    /\ cells[2].kind = "prompt"
    /\ 0 \in GetCellDependencies(cells, 1).value
    /\ 1 \in GetDependentCells(cells, 0).value

\* the same kind, content and kind-specific config
SameConfig(a, b) ==
    /\ a.kind = b.kind
    /\ a.content = b.content
    /\ a.model = b.model
    /\ a.temperature = b.temperature
    /\ a.response_var = b.response_var

\* r, the result of a load, is the current notebook with an empty state
RoundTripPreserves(r) ==
    /\ r.returned
    /\ r.meta.name = meta.name
    /\ r.meta.notebook_id = meta.notebook_id
    /\ Len(r.cells) = Len(cells)
    /\ \A i \in 1..Len(cells) : SameConfig(cells[i], r.cells[i])
    /\ r.state = EmptyDict

\* C15: load(save(N)) has the name, the id, the number and order of cells of N,
\* for each cell the same kind, content and kind-specific config (for a
\* prompt cell: model, temperature and explicit response-variable name), and
\* an empty state.
ClaimC15_RoundTrip ==
    RoundTripPreserves(LoadDocument(ToDict(cells, state, Touch(meta, clock)), clock))

\* C16: a loaded notebook has each cell's outputs equal to the persisted
\* outputs, an empty state even when the document lists state keys, and empty
\* reads and writes for every cell, so the execution graph maps every index to
\* the empty set.
ThmC16_LoadedNotebook ==
    (last.op = "load" /\ last.raised = "")
    => /\ state = EmptyDict
       /\ Len(cells) = Len(doc[1].cells)
       /\ DOMAIN GetExecutionGraph(cells) = CellIndices
       /\ \A i \in 1..Len(cells) :
             /\ cells[i].outputs = doc[1].cells[i].outputs
             /\ cells[i].deps = {}
             /\ cells[i].produces = {}
             /\ GetExecutionGraph(cells)[i - 1] = {}

\* C16 witness: a document that lists state keys and holds outputs was loaded
WitC16_LoadedNotebook ==
    /\ last.op = "load"
    /\ last.raised = ""
    /\ doc[1].state_keys # {}
    /\ \E i \in 1..Len(cells) : cells[i].outputs # <<>>

\* some cell record of the document has a type tag load() does not know
HasUnknownType(data) ==
    \E k \in 1..Len(data.cells) : KindOfType(data.cells[k].type) = ""

\* C17: loading a document in which a cell record has an unrecognized type tag
\* raises an error and returns no notebook, not even one holding the cells
\* that precede the bad record.
ThmC17_UnknownTypeFails ==
    (doc # <<>> /\ HasUnknownType(doc[1]))
    => /\ LoadDocument(doc[1], clock).raised = "ValueError"
       /\ ~LoadDocument(doc[1], clock).returned
       /\ LoadDocument(doc[1], clock).cells = <<>>
       /\ last.op = "load" => last.raised = "ValueError"

\* C17 witness: a load failed on a document whose second record is the bad one
WitC17_UnknownTypeFails ==
    /\ last.op = "load"
    /\ last.raised = "ValueError"
    /\ Len(doc[1].cells) = 2
    /\ doc[1].cells[1].type = "MemoryCell"
    /\ doc[1].cells[2].type = "UnknownCell"

\* values a state could hold instead of its own
OtherValues == {IntV(0), StrV("secret")}

\* C18: the document depends on the state only through its set of names: a
\* notebook that differs only in the values of its state gives the same
\* to_dict document, and state_keys equals the key set of the state.
ThmC18_OnlyNamesPersisted ==
    /\ \A st \in [DOMAIN state -> OtherValues] :
          ToDict(cells, st, meta) = ToDict(cells, state, meta)
    /\ ToDict(cells, state, meta).state_keys = DOMAIN state
    /\ last.op = "save" => doc[1].state_keys = DOMAIN state

\* C18 witness: a notebook whose state holds a response was saved
WitC18_OnlyNamesPersisted ==
    /\ last.op = "save"
    /\ "_" \in DOMAIN state
    /\ doc[1].state_keys = DOMAIN state

\* the last operation was an execute_cell with an index outside the cells
OutOfRange(l, cs) == l.op = "execute_cell" /\ (l.index < 0 \/ l.index >= Len(cs))

\* C19: execute_cell with an index below 0 or at or beyond the number of
\* cells raises IndexError without executing any cell, and the step leaves
\* the state, every cell's outputs, reads and writes, and updated_at unchanged.
ThmC19_OutOfRange ==
    /\ [](OutOfRange(last, cells) => last.raised = "IndexError" /\ last.log = <<>>)
    /\ [][OutOfRange(last', cells)
           => /\ state' = state
              /\ meta'.updated_at = meta.updated_at
              /\ Len(cells') = Len(cells)
              /\ \A i \in 1..Len(cells) :
                    /\ cells'[i].outputs = cells[i].outputs
                    /\ cells'[i].deps = cells[i].deps
                    /\ cells'[i].produces = cells[i].produces]_vars

\* C19 witness: an index at the number of cells was refused, at a time later
\* than updated_at, in a notebook with a state and a cell with outputs
WitC19_OutOfRange ==
    /\ last.op = "execute_cell"
    /\ last.raised = "IndexError"
    /\ last.index = Len(cells)
    /\ clock > meta.updated_at
    /\ state # EmptyDict
    /\ \E i \in 1..Len(cells) : cells[i].outputs # <<>> /\ cells[i].produces # {}

\* a memory cell of literal assignments and literal-dict updates only
LiteralOnly(content) ==
    /\ Len(content.body) > 0
    /\ \A j \in 1..Len(content.body) : content.body[j].op \in {"lit_int", "lit_str", "update"}

\* the names the lines of such a cell bind, with their literal values
RECURSIVE LiteralWrites(_, _, _)
LiteralWrites(body, i, acc) ==
    IF i > Len(body) THEN acc
    ELSE LiteralWrites(body, i + 1,
            CASE body[i].op = "lit_int" -> (body[i].tgt :> IntV(body[i].n)) @@ acc
              [] body[i].op = "lit_str" -> (body[i].tgt :> StrV(body[i].txt)) @@ acc
              [] OTHER -> body[i].d @@ acc)

\* e is the previous state extended with the writes w, reported by one
\* memory_update output whose added set is the names of w
ExtendsBy(e, w) ==
    /\ e.post = w @@ e.pre
    /\ Len(e.outputs) = 1
    /\ e.outputs[1].type = "memory_update"
    /\ e.outputs[1].added = DOMAIN w

\* C20: a memory cell of simple assignments with literal right-hand sides and
\* of memory.update calls with a literal dict returns the previous state
\* extended with every assigned name and dict key bound to its literal value,
\* and records exactly one output, of type memory_update, whose added set is
\* exactly the set of names written by this execution.
ClaimC20_MemoryLiterals ==
    \A k \in LogIndices :
        (Log[k].kind = "memory" /\ LiteralOnly(CellOf(Log[k]).content))
        => ExtendsBy(Log[k], LiteralWrites(CellOf(Log[k]).content.body, 1, EmptyDict))

\* line j of the body is an assignment that neither literal_eval nor the
\* restricted eval can evaluate when the cell starts from the state pre
FailsBoth(body, j, pre) ==
    \/ body[j].op = "assign_unhashable"
    \/ /\ body[j].op = "expr_add"
       /\ \A h \in 1..(j - 1) : body[h].tgt # body[j].src
       /\ body[j].src \in DOMAIN pre => pre[body[j].src].t # "int"

\* no line of the body is a bulk update that fails at the cell level
NoFailingUpdate(body) ==
    \A j \in 1..Len(body) : body[j].op # "update_unhashable"

\* the evaluation e stored the raw text of line j, warned, went on to the
\* literal assignments after it and ended with the memory_update output
StoredRaw(e, body, j) ==
    /\ body[j].tgt \in DOMAIN e.post
    /\ e.post[body[j].tgt] = StrV(body[j].txt)
    /\ HasOutput(e.outputs, "warning")
    /\ \A h \in (j + 1)..Len(body) :
          body[h].op = "lit_int"
          => body[h].tgt \in DOMAIN e.post /\ e.post[body[h].tgt] = IntV(body[h].n)
    /\ e.outputs[Len(e.outputs)].type = "memory_update"

\* C21: a memory-cell assignment whose right-hand side can be evaluated
\* neither as a literal nor by the restricted evaluation stores the raw text
\* as a string under the name, adds a warning output and does not abort the
\* cell: the later lines are processed, their updates are in the returned
\* state, and the final memory_update output is emitted.
ClaimC21_WarningNotAbort ==
    \A k \in LogIndices :
        (Log[k].kind = "memory" /\ NoFailingUpdate(CellOf(Log[k]).content.body))
        => \A j \in 1..Len(CellOf(Log[k]).content.body) :
              FailsBoth(CellOf(Log[k]).content.body, j, Log[k].pre)
              => StoredRaw(Log[k], CellOf(Log[k]).content.body, j)

\* the names line j of a computation cell loads, and the names it assigns
LoadsOf(s) ==
    CASE s.op = "add" -> {s.src}
      [] s.op = "append" -> {s.tgt}
      [] OTHER -> {}

AssignsOf(s) == IF s.op \in {"const", "add"} THEN {s.tgt} ELSE {}

\* the names of pre the body loads before any earlier line assigns them; the
\* right-hand side of an assignment is evaluated before its target is bound
LoadedBeforeAssigned(body, pre) ==
    {v \in DOMAIN pre :
        \E j \in 1..Len(body) :
            /\ v \in LoadsOf(body[j])
            /\ \A h \in 1..(j - 1) : v \notin AssignsOf(body[h])}

\* C22: for a computation cell, a name of the pre-execution state is a
\* recorded read if and only if the cell loads it before any assignment to it
\* within the cell: `x = 1` then `y = x` does not read x, `x = x + 1` with x
\* in the state does.
ClaimC22_ReadsBeforeAssignment ==
    \A k \in LogIndices :
        (Log[k].kind = "computation" /\ CellOf(Log[k]).content.parses)
        => CellOf(Log[k]).deps = LoadedBeforeAssigned(CellOf(Log[k]).content.body, Log[k].pre)

\* the public names whose binding in the namespace ns the code left is new or
\* differs from the value the state pre held
ChangedNames(pre, ns) ==
    {k \in DOMAIN ns :
        ~StartsWithUnderscore(k) /\ (k \notin DOMAIN pre \/ ns[k] # pre[k])}

\* post is pre overridden by the bindings of exactly the names of changed,
\* and exactly those names were added to the produced names
MergedExactly(pre, post, ns, changed, produces, produces_after) ==
    /\ post = [k \in DOMAIN pre \cup changed |-> IF k \in changed THEN ns[k] ELSE pre[k]]
    /\ produces_after = produces \cup changed

\* C23: after a successful computation cell the returned state is the
\* previous state overridden by exactly the bindings of the names that do not
\* start with `_` and that are new or whose value differs from the value
\* before the execution, and exactly those names are added to the cell's
\* produced names.
ClaimC23_MergeExactlyChanged ==
    [][(/\ last'.op = "execute_cell"
        /\ last'.raised = ""
        /\ last'.index >= 0
        /\ last'.index < Len(cells)
        /\ cells[last'.index + 1].kind = "computation"
        /\ Exec(cells[last'.index + 1].content, state).status = "ok")
       => MergedExactly(state, state',
                        Exec(cells[last'.index + 1].content, state).ns,
                        ChangedNames(state, Exec(cells[last'.index + 1].content, state).ns),
                        cells[last'.index + 1].produces,
                        cells'[last'.index + 1].produces)]_vars

\* every statement of the body is a print
OnlyPrints(body) ==
    Len(body) > 0 /\ \A j \in 1..Len(body) : body[j].op = "print"

\* no statement of the body is a print
NeverPrints(body) == \A j \in 1..Len(body) : body[j].op # "print"

\* what the prints of the body write to stdout
RECURSIVE PrintedText(_, _)
PrintedText(body, i) ==
    IF i > Len(body) THEN ""
    ELSE (IF body[i].op = "print" THEN body[i].txt \o "\n" ELSE "") \o PrintedText(body, i + 1)

\* C24: standard output of a computation cell is captured: a cell that only
\* prints yields exactly one stdout output whose content is the printed text
\* and leaves the state unchanged, and a successful cell that prints nothing
\* yields an empty output list.
ThmC24_StdoutCaptured ==
    \A k \in LogIndices :
        (Log[k].kind = "computation" /\ CellOf(Log[k]).content.parses)
        => /\ OnlyPrints(CellOf(Log[k]).content.body)
              => /\ Log[k].outputs =
                       << Output("stdout", PrintedText(CellOf(Log[k]).content.body, 1)) >>
                 /\ Log[k].post = Log[k].pre
           /\ (NeverPrints(CellOf(Log[k]).content.body) /\ ~Failed(Log[k]))
              => Log[k].outputs = <<>>

\* C24 witness: with names in the state, one cell printed and a cell that
\* prints nothing succeeded
WitC24_StdoutCaptured ==
    /\ last.op = "execute_all_cells"
    /\ Len(Log) = 2
    /\ Log[1].kind = "computation" /\ NeverPrints(CellOf(Log[1]).content.body)
    /\ Log[1].outputs = <<>> /\ Log[1].post # Log[1].pre
    /\ CellOf(Log[2]).content = CodePrint
    /\ Log[2].outputs = << Output("stdout", "Hello, world!\n") >>
    /\ Log[2].pre # EmptyDict

\* the outputs a cell with the fields of c and no outputs records when it is
\* executed on the state pre
FreshOutputs(c, pre) ==
    {CellExecute([c EXCEPT !.outputs = <<>>], pre, provider, outcome).outputs :
        outcome \in Outcomes}

Constructed == "args" \in DOMAIN last

\* arguments PromptCell must refuse
InvalidArgs(a) ==
    \/ a.temperature < 0
    \/ a.temperature > 20
    \/ a.response_var # <<>> /\ a.response_var[1] \in {"", "2nd", "my var"}

\* C26: constructing a prompt cell with a temperature outside [0.0, 2.0], or
\* with an explicit response name that is empty or not an identifier, fails
\* with ValueError and creates no cell: nothing is appended, updated_at is
\* unchanged, and no cell with such a config is ever executed.
ThmC26_InvalidPromptRefused ==
    /\ [](Constructed => (last.raised = "ValueError" <=> InvalidArgs(last.args)))
    /\ [](\A i \in 1..Len(cells) :
            cells[i].kind = "prompt"
            => /\ cells[i].temperature >= 0 /\ cells[i].temperature <= 20
               /\ cells[i].response_var \notin {"2nd", "my var"})
    /\ [](\A k \in LogIndices :
            Log[k].call.invoked
            => Log[k].call.temperature >= 0 /\ Log[k].call.temperature <= 20)
    /\ [][("args" \in DOMAIN last' /\ InvalidArgs(last'.args))
           => cells' = cells /\ meta' = meta /\ state' = state]_vars

\* C26 witness: create_prompt_cell with a temperature above 2.0 was refused
\* at a time later than updated_at, in a notebook that holds a cell
WitC26_InvalidPromptRefused ==
    /\ Constructed
    /\ last.op = "create_prompt_cell"
    /\ last.args.temperature = 21
    /\ last.raised = "ValueError"
    /\ Len(cells) = 1
    /\ clock > meta.updated_at

\* C27: executing a markdown cell returns the state unchanged, sets the
\* cell's outputs to exactly one markdown record whose content is the cell
\* content, and leaves its reads and produced names empty, so a markdown cell
\* is in no dependency set and no dependent set and has none of its own.
ThmC27_MarkdownIdentity ==
    /\ \A k \in LogIndices :
          Log[k].kind = "markdown"
          => /\ Log[k].post = Log[k].pre
             /\ Log[k].raised = ""
             /\ CellOf(Log[k]).outputs = << Output("markdown", CellOf(Log[k]).content.text) >>
    /\ \A i \in CellIndices :
          cells[i + 1].kind = "markdown"
          => /\ cells[i + 1].deps = {}
             /\ cells[i + 1].produces = {}
             /\ GetCellDependencies(cells, i).value = {}
             /\ GetDependentCells(cells, i).value = {}
             /\ \A j \in CellIndices :
                   /\ i \notin GetCellDependencies(cells, j).value
                   /\ i \notin GetDependentCells(cells, j).value

\* C27 witness: a markdown cell was executed on a state that holds the names
\* the cell before it produced
WitC27_MarkdownIdentity ==
    /\ last.op = "execute_all_cells"
    /\ Len(Log) = 2
    /\ Log[2].kind = "markdown"
    /\ Log[2].pre # EmptyDict
    /\ cells[1].produces # {}
    /\ Len(cells[2].outputs) = 1

\* C28: executing a computation cell whose content does not parse leaves the
\* cell with empty reads and empty writes, also when an earlier run of the
\* cell recorded some, records one error output and leaves the state
\* unchanged; nothing is raised.
ClaimC28_ParseFailureEmptySets ==
    \A k \in LogIndices :
        (Log[k].kind = "computation" /\ ~CellOf(Log[k]).content.parses)
        => /\ Log[k].raised = ""
           /\ CellOf(Log[k]).deps = {}
           /\ CellOf(Log[k]).produces = {}
           /\ SingleError(Log[k].outputs)
           /\ Log[k].post = Log[k].pre

\* the observation is of an operation that changes the cell sequence or the
\* state: add_cell, an execute_cell that returned, clear_state, a deletion
StructuralOrStateAffecting(l) ==
    \/ l.op \in {"add_cell", "clear_state", "delete_cell"}
    \/ l.op = "execute_cell" /\ l.raised = ""

\* C29: created_at equals updated_at at notebook creation and never changes
\* afterwards, and updated_at is refreshed by every structural or
\* state-affecting operation: adding a cell, executing a cell, clear_state,
\* and deleting a cell.
ClaimC29_Timestamps ==
    /\ [](last.op = "init" => meta.created_at = meta.updated_at)
    /\ [][meta'.created_at = meta.created_at]_vars
    /\ [][(clock' = clock /\ StructuralOrStateAffecting(last'))
           => meta'.updated_at = clock']_vars

\* the texts provider p can answer the prompt with
AnswersOf(p, prompt) == {Generate(p, prompt, outcome).text : outcome \in Outcomes}

\* C30: the provider is resolved once and cached: it stays the same from one
\* get_llm_provider call to the next until set_provider is called; after
\* set_provider the prompt executions use the new provider, and set_provider
\* leaves the outputs and the state entries of earlier executions unchanged.
ThmC30_ProviderCached ==
    /\ [][last'.op # "set_provider"
           => IF provider = "None" THEN provider' \in {"None", "mock"}
              ELSE provider' = provider]_vars
    /\ [](\A k \in LogIndices :
            Log[k].call.invoked
            => /\ provider # "None"
               /\ Len(Log[k].outputs) = 1
               /\ Log[k].outputs[1].content \in AnswersOf(provider, Log[k].call.prompt))
    /\ [][last'.op = "set_provider" => cells' = cells /\ state' = state]_vars

\* C30 witness: the second cell was answered by the provider set after the
\* first cell had been answered by the default one, whose output and state
\* entry are still there
WitC30_ProviderCached ==
    /\ last.op = "execute_cell"
    /\ last.index = 1
    /\ Len(cells) = 2
    /\ provider = "openai"
    /\ Len(cells[1].outputs) = 1
    /\ cells[1].outputs[1].content = "Mock response to: Say hi..."
    /\ Len(cells[2].outputs) = 1
    /\ cells[2].outputs[1].content = "Completion."
    /\ ("response_" \o cells[1].cell_id) \in DOMAIN state
    /\ state["response_" \o cells[1].cell_id] = StrV("Mock response to: Say hi...")

\* the step keeps the cells and their contents, and keeps (keep = TRUE) or
\* empties (keep = FALSE) the outputs of every cell
CellsAfter(before, after, keep) ==
    /\ Len(after) = Len(before)
    /\ \A i \in 1..Len(before) :
          /\ after[i].content = before[i].content
          /\ after[i].outputs = IF keep THEN before[i].outputs ELSE <<>>

\* C31: clear_state sets the state to empty and leaves every cell's content
\* and outputs unchanged; clear_outputs empties the outputs of every cell and
\* leaves the state and every cell's content unchanged.
ThmC31_ClearFrames ==
    /\ [][last'.op = "clear_state"
           => state' = EmptyDict /\ CellsAfter(cells, cells', TRUE)]_vars
    /\ [][last'.op = "clear_outputs"
           => state' = state /\ CellsAfter(cells, cells', FALSE)]_vars

\* C31 witness: clear_outputs has emptied the outputs of two executed cells
\* of a notebook whose state holds their names
WitC31_ClearFrames ==
    /\ last.op = "clear_outputs"
    /\ Len(cells) = 2
    /\ cells[1].produces # {} /\ cells[2].produces # {}
    /\ cells[1].outputs = <<>> /\ cells[2].outputs = <<>>
    /\ state # EmptyDict

\* ---- C32 ----

\* worker t's request stores the state its cell returned in this step
Stores(t) == web.reqs[t].pc = "executed" /\ web'.reqs[t].pc = "idle"

\* the step keeps every name of the state as it is, the names among `written`
\* excepted
KeepsOthers(written) ==
    \A k \in DOMAIN state :
        k \in DOMAIN state' /\ (state'[k] # state[k] => k \in written)

\* C32: when execute requests are served side by side, a request that stores its
\* result never undoes what another request stored since it read the state: the
\* state it finds keeps every name and value, those its own cell writes excepted
ClaimC32_NoLostUpdate ==
    [][\A t \in Workers :
          Stores(t) => KeepsOthers(cells[web.reqs[t].index + 1].produces)]_vars

\* ---- C33 ----

\* C33: a computation cell whose code raises leaves the notebook state, the
\* values of mutable names included, equal to the state before the execution
ClaimC33_FailureInvisible ==
    \A k \in 1..Len(Log) :
        (Log[k].kind = "computation" /\ HasOutput(Log[k].outputs, "error"))
            => Log[k].post = Log[k].pre

\* ---- C34 ----

\* Notebook.execute_cell on the cell and the notebook the request evaluated
EngineStep(r) == ExecuteStep(r.nb, r.index, "ok")

\* C34: a request served by the web adapter's execute route leaves the notebook
\* as Notebook.execute_cell on that cell's index leaves an equal notebook: the
\* same state, the same outputs, reads and writes of every cell, and updated_at
\* refreshed to the time of the call
ClaimC34_RouteIsExecuteCell ==
    [][Stores(1) =>
          /\ state' = EngineStep(web.reqs[1]).state
          /\ cells' = EngineStep(web.reqs[1]).cells
          /\ meta'.updated_at = clock]_vars

\* ---- C35 ----

TerminalEvents == {"cell_execution_completed", "cell_execution_failed"}

\* the events of the given types for cell c among the first n emitted
EventsFor(c, types, n) ==
    Cardinality({j \in 1..n : web.events[j].cell_id = c /\ web.events[j].type \in types})

\* the requests that emitted started for cell c and have their terminal event
\* ahead of them
InFlight(c) ==
    Cardinality({t \in Workers : /\ web.reqs[t].pc # "idle"
                                 /\ cells[web.reqs[t].index + 1].cell_id = c})

\* an event is emitted in this step
Emitted == Len(web'.events) = Len(web.events) + 1

\* C35: every cell_execution_started for a cell has exactly one terminal event
\* after it, or a request under way that will emit it; no terminal event comes
\* without a started before it; and a cell that recorded an error output ends
\* with cell_execution_completed
ClaimC35_EventsPaired ==
    /\ [](\A n \in 1..MaxCells :
            /\ EventsFor(Uuid4(n), {"cell_execution_started"}, Len(web.events))
                  = EventsFor(Uuid4(n), TerminalEvents, Len(web.events)) + InFlight(Uuid4(n))
            /\ \A k \in 0..Len(web.events) :
                  EventsFor(Uuid4(n), TerminalEvents, k)
                      <= EventsFor(Uuid4(n), {"cell_execution_started"}, k))
    /\ [][\A t \in Workers :
            (Stores(t) /\ HasOutput(cells[web.reqs[t].index + 1].outputs, "error"))
                => /\ Emitted
                   /\ web'.events[Len(web'.events)].type = "cell_execution_completed"]_vars

\* ---- C36 ----

\* C36: in every state a notebook reaches by creating, loading, executing and
\* updating cells, the web adapter's cell update included, the temperature of
\* every prompt cell lies in [0.0, 2.0]
ClaimC36_TemperatureInRange ==
    \A i \in 1..Len(cells) :
        cells[i].kind = "prompt"
            => (MinTemperature <= cells[i].temperature
                /\ cells[i].temperature <= MaxTemperature)

\* ---- C37 ----

\* every evaluation of the most recent operation kept the names it started with
KeysKept == \A k \in 1..Len(Log) : DOMAIN Log[k].pre \subseteq DOMAIN Log[k].post

\* C37: an execution, whether it succeeds or fails, removes no name from the
\* notebook state, a name the code deletes with `del` included; a step that
\* loses a name of the state is a clear_state
ThmC37_KeysNeverRemoved ==
    /\ [](last.op \in {"execute_cell", "execute_all_cells"} => KeysKept)
    /\ [][/\ (last'.op \in {"execute_cell", "execute_all_cells"}
                 => DOMAIN state \subseteq DOMAIN state')
           /\ (~(DOMAIN state \subseteq DOMAIN state') => last'.op = "clear_state")]_vars

\* an execute_cell ran `del x` without an error on a state holding x, and x is
\* still a name of the state
WitC37_KeysNeverRemoved ==
    /\ last.op = "execute_cell"
    /\ Len(Log) = 1
    /\ CellOf(Log[1]).content = CodeDel
    /\ Log[1].outputs = <<>>
    /\ "x" \in DOMAIN Log[1].pre
    /\ "x" \in DOMAIN state

\* ---- C38 ----

\* C38: after load() of a document with at least one cell, the notebook's
\* created_at and updated_at are the values stored in the document
ClaimC38_TimestampsRestored ==
    (last.op = "load" /\ last.raised = "" /\ Len(doc[1].cells) >= 1)
        => (meta.created_at = doc[1].created_at /\ meta.updated_at = doc[1].updated_at)

====
